---- MODULE Spec2Model ----
(***************************************************************************)
(* A model of env-audit: the environment-file parser, the per-dialect      *)
(* usage extractors and the cross-reference analysis (missing, unused,     *)
(* naming) with its final ordering.                                        *)
(*                                                                         *)
(* Text (variable names, paths, lines of files, patterns) is a sequence of *)
(* byte values, so that String::cmp is the lexicographic order on the      *)
(* sequences and the character classes are ranges of codes.                *)
(***************************************************************************)
EXTENDS Integers, Sequences, FiniteSets, TLC

VARIABLES
  envContent,   \* the lines of the environment file being parsed
  definitions,  \* Vec<EnvVarDefinition>
  srcPath,      \* path of the source file being scanned
  srcContent,   \* the lines of the source file being scanned
  usages,       \* Vec<EnvVarUsage>
  config,       \* Config (naming section)
  missing,      \* result of find_missing_vars 
  unused,       \* result of find_unused_vars 
  naming,       \* result of find_naming_issues 
  issues,       \* result of analyze
  pc,           \* phase of the run
  disk,         \* the files of the project: absent, unreadable or readable
  envFiles,     \* Vec<PathBuf> of find_env_files
  sourceFiles,  \* Vec<PathBuf> of find_source_files, or given to scan_files
  cli,          \* the command line: command and arguments
  report,       \* ScanReport of run_scan
  exit,         \* exit status of the process, -1 while it runs
  error,        \* the error the command ends with
  printed,      \* what the command wrote to the standard output
  nworkers,     \* the number of threads of the pool of scan_files
  slots,        \* per file of scan_files: the state and result of its scan_file
  finished      \* the files of scan_files in the order their scan_file ended

\* the variables of a whole command
\* the variables of the parallel iterator of scan_files
parVars == <<nworkers, slots, finished>>

runVars == <<disk, envFiles, sourceFiles, cli, report, exit, error, printed, parVars>>

vars == <<envContent, definitions, srcPath, srcContent, usages, config,
          missing, unused, naming, issues, pc, runVars>>

NoReport == [built |-> FALSE]
NoError == [failed |-> FALSE]
NoCli == [command |-> "none"]

\* scan_files is taken as one step: no thread of its pool is followed
NoPar ==
  /\ nworkers = 0
  /\ slots = <<>>
  /\ finished = <<>>

\* no command runs: the state of the variables of a whole command when a
\* single function is exercised
NoRun ==
  /\ NoPar
  /\ disk = <<>>
  /\ envFiles = <<>>
  /\ sourceFiles = <<>>
  /\ cli = NoCli
  /\ report = NoReport
  /\ exit = -1
  /\ error = NoError
  /\ printed = [kind |-> "nothing"]

-----------------------------------------------------------------------------
(* Bounds *)

\* the number of facts (definitions plus usages) handed to one analysis
MaxFacts == 3

-----------------------------------------------------------------------------
(* Text *)

API_KEY       == <<65, 80, 73, 95, 75, 69, 89>>
DATABASE_URL  == <<68, 65, 84, 65, 66, 65, 83, 69, 95, 85, 82, 76>>
DB_URL        == <<68, 66, 95, 85, 82, 76>>
DB_HOST       == <<68, 66, 95, 72, 79, 83, 84>>
INTERNAL_VAR  == <<73, 78, 84, 69, 82, 78, 65, 76, 95, 86, 65, 82>>
U_INTERNAL_VAR == <<95>> \o INTERNAL_VAR   \* _INTERNAL_VAR
DotEnv        == <<46, 101, 110, 118>>                            \* .env
SrcAppJs      == <<115, 114, 99, 47, 97, 112, 112, 46, 106, 115>> \* src/app.js

RECURSIVE StrCmp(_, _)
\* str::cmp / String::cmp: -1, 0 or 1, bytewise lexicographic
StrCmp(a, b) ==
  IF a = <<>> THEN (IF b = <<>> THEN 0 ELSE -1)
  ELSE IF b = <<>> THEN 1
  ELSE IF a[1] < b[1] THEN -1
  ELSE IF a[1] > b[1] THEN 1
  ELSE StrCmp(Tail(a), Tail(b))

RECURSIVE components(_)
\* Path::components of a relative path: the texts between the '/', without
\* the empty ones and without a "." that is not the first
components(path) ==
  LET slashes == {i \in DOMAIN path : path[i] = 47}
      cut == IF slashes = {} THEN Len(path) + 1
             ELSE CHOOSE i \in slashes : \A j \in slashes : i <= j
      first == SubSeq(path, 1, cut - 1)
      rest == IF cut > Len(path) THEN <<>>
              ELSE SelectSeq(components(SubSeq(path, cut + 1, Len(path))),
                             LAMBDA c : c # <<46>>)
  IN IF path = <<>> THEN <<>>
     ELSE IF first = <<>> THEN rest
     ELSE <<first>> \o rest

\* derive(Ord) on Component: CurDir, then ParentDir, then Normal by its text
ComponentCmp(a, b) ==
  LET kind(c) == IF c = <<46>> THEN 0 ELSE IF c = <<46, 46>> THEN 1 ELSE 2
  IN IF kind(a) < kind(b) THEN -1
     ELSE IF kind(a) > kind(b) THEN 1
     ELSE StrCmp(a, b)

RECURSIVE ComponentsCmp(_, _)
\* the lexicographic order on sequences of components
ComponentsCmp(a, b) ==
  IF a = <<>> THEN (IF b = <<>> THEN 0 ELSE -1)
  ELSE IF b = <<>> THEN 1
  ELSE IF ComponentCmp(a[1], b[1]) # 0 THEN ComponentCmp(a[1], b[1])
  ELSE ComponentsCmp(Tail(a), Tail(b))

\* Path::cmp / PathBuf::cmp: by components
PathCmp(a, b) == ComponentsCmp(components(a), components(b))

\* all orders in which the elements of a set can be iterated
Perms(S) ==
  {f \in [1..Cardinality(S) -> S] : \A x \in S : \E i \in DOMAIN f : f[i] = x}

RECURSIVE Flatten(_)
\* the concatenation of a sequence of sequences
Flatten(ss) == IF ss = <<>> THEN <<>> ELSE Head(ss) \o Flatten(Tail(ss))

-----------------------------------------------------------------------------
(* types.rs *)

Severity == {"Info", "Warning", "Error"}

\* derive(PartialOrd, Ord) on Severity: the declaration order
SeverityOrd(s) == CASE s = "Info" -> 0 [] s = "Warning" -> 1 [] s = "Error" -> 2

IssueKind == {"MissingEnvVar", "UnusedEnvVar", "InconsistentNaming",
              "DuplicateDefinition"}

None == "None"

-----------------------------------------------------------------------------
(* rules *)

get_builtin_rules ==
  <<
    [name |-> "database-url",
     description |-> "Database connection URL",
     alternatives |-> << <<68, 66, 95, 85, 82, 76>>,
                        <<68, 66, 95, 67, 79, 78, 78, 69, 67, 84, 73, 79, 78>>,
                        <<68, 66, 95, 72, 79, 83, 84>> >>,   \* DB_URL, DB_CONNECTION, DB_HOST
     preferred |-> <<68, 65, 84, 65, 66, 65, 83, 69, 95, 85, 82, 76>>,   \* DATABASE_URL
     severity |-> "Warning"],
    [name |-> "redis-url",
     description |-> "Redis connection URL",
     alternatives |-> << <<82, 69, 68, 73, 83, 95, 72, 79, 83, 84>>,
                        <<82, 69, 68, 73, 83, 95, 67, 79, 78, 78, 69, 67, 84, 73, 79, 78>> >>,   \* REDIS_HOST, REDIS_CONNECTION
     preferred |-> <<82, 69, 68, 73, 83, 95, 85, 82, 76>>,   \* REDIS_URL
     severity |-> "Warning"],
    [name |-> "api-key",
     description |-> "API key naming",
     alternatives |-> << <<65, 80, 73, 75, 69, 89>>,
                        <<65, 80, 73, 95, 83, 69, 67, 82, 69, 84>> >>,   \* APIKEY, API_SECRET
     preferred |-> <<65, 80, 73, 95, 75, 69, 89>>,   \* API_KEY
     severity |-> "Info"],
    [name |-> "secret-key",
     description |-> "Secret key naming",
     alternatives |-> << <<83, 69, 67, 82, 69, 84>>,
                        <<65, 80, 80, 95, 83, 69, 67, 82, 69, 84>> >>,   \* SECRET, APP_SECRET
     preferred |-> <<83, 69, 67, 82, 69, 84, 95, 75, 69, 89>>,   \* SECRET_KEY
     severity |-> "Info"],
    [name |-> "port",
     description |-> "Application port",
     alternatives |-> << <<65, 80, 80, 95, 80, 79, 82, 84>>,
                        <<83, 69, 82, 86, 69, 82, 95, 80, 79, 82, 84>>,
                        <<72, 84, 84, 80, 95, 80, 79, 82, 84>> >>,   \* APP_PORT, SERVER_PORT, HTTP_PORT
     preferred |-> <<80, 79, 82, 84>>,   \* PORT
     severity |-> "Info"],
    [name |-> "log-level",
     description |-> "Logging level",
     alternatives |-> << <<76, 79, 71, 76, 69, 86, 69, 76>>,
                        <<76, 79, 71, 71, 73, 78, 71, 95, 76, 69, 86, 69, 76>> >>,   \* LOGLEVEL, LOGGING_LEVEL
     preferred |-> <<76, 79, 71, 95, 76, 69, 86, 69, 76>>,   \* LOG_LEVEL
     severity |-> "Info"],
    [name |-> "aws-region",
     description |-> "AWS region",
     alternatives |-> << <<82, 69, 71, 73, 79, 78>>,
                        <<65, 77, 65, 90, 79, 78, 95, 82, 69, 71, 73, 79, 78>> >>,   \* REGION, AMAZON_REGION
     preferred |-> <<65, 87, 83, 95, 82, 69, 71, 73, 79, 78>>,   \* AWS_REGION
     severity |-> "Info"],
    [name |-> "jwt-secret",
     description |-> "JWT signing secret",
     alternatives |-> << <<74, 87, 84, 95, 75, 69, 89>>,
                        <<84, 79, 75, 69, 78, 95, 83, 69, 67, 82, 69, 84>> >>,   \* JWT_KEY, TOKEN_SECRET
     preferred |-> <<74, 87, 84, 95, 83, 69, 67, 82, 69, 84>>,   \* JWT_SECRET
     severity |-> "Info"]
  >>

\* NamingRule::severity_level (config.rs), on the lowercased string
severity_level(custom) ==
  CASE custom.severity = "error" -> "Error"
    [] custom.severity = "warning" -> "Warning"
    [] OTHER -> "Info"

\* get_all_rules: built-in rules when enabled, then the custom rules
get_all_rules(cfg) ==
  (IF cfg.builtin_rules THEN get_builtin_rules ELSE <<>>)
  \o [i \in DOMAIN cfg.custom_rules |->
        [name |-> cfg.custom_rules[i].name,
         description |-> cfg.custom_rules[i].description,
         alternatives |-> cfg.custom_rules[i].alternatives,
         preferred |-> cfg.custom_rules[i].preferred,
         severity |-> severity_level(cfg.custom_rules[i])]]

-----------------------------------------------------------------------------
(* Regular expressions of the ignore list.  The patterns of the model are  *)
(* literals with an optional leading ^ and trailing $, and patterns with   *)
(* an unclosed group, which do not compile.                                *)

CountOf(c, s) == Cardinality({i \in DOMAIN s : s[i] = c})

\* Regex::new(p): ok is FALSE for a pattern that does not compile
RegexNew(p) ==
  IF CountOf(40, p) # CountOf(41, p)
    THEN [ok |-> FALSE, start |-> FALSE, end |-> FALSE, lit |-> <<>>]
    ELSE LET a == Len(p) > 0 /\ p[1] = 94
             z == Len(p) > 0 /\ p[Len(p)] = 36
             from == IF a THEN 2 ELSE 1
             to == IF z THEN Len(p) - 1 ELSE Len(p)
         IN [ok |-> TRUE, start |-> a, end |-> z, lit |-> SubSeq(p, from, to)]

\* Regex::is_match: an unanchored search
is_match(re, s) ==
  LET n == Len(re.lit)
      at(i) == i >= 1 /\ i + n - 1 <= Len(s) /\ SubSeq(s, i, i + n - 1) = re.lit
  IN \E i \in 1..(Len(s) + 1) :
       /\ at(i)
       /\ re.start => i = 1
       /\ re.end => i + n - 1 = Len(s)

-----------------------------------------------------------------------------
(* analysis/missing.rs *)

defined_names(defs) == {defs[i].name : i \in DOMAIN defs}
used_names(uses) == {uses[i].name : i \in DOMAIN uses}

\* missing_names without the difference: every used name is reported
missing_names_used(defs, uses) == used_names(uses)

\* used_names.difference(&defined_names)
missing_names(defs, uses) == used_names(uses) \ defined_names(defs)

\* the issue pushed for one missing name
MissingIssue(name, uses) ==
  LET us == SelectSeq(uses, LAMBDA u : u.name = name)
      locations == [i \in DOMAIN us |->
                      [file |-> us[i].file_path, line |-> us[i].line,
                       column |-> us[i].column]]
  IN [kind |-> "MissingEnvVar",
      severity |-> "Error",
      var_name |-> name,
      message |-> [text |-> IF Len(locations) = 1 THEN "used" ELSE "used in locations",
                   count |-> Len(locations)],
      locations |-> locations,
      suggestion |-> [text |-> "Add to your .env file", name |-> name]]

\* find_missing_vars; order is the order in which the hash set difference
\* yields the missing names
find_missing_vars(defs, uses, order) ==
  [i \in DOMAIN order |-> MissingIssue(order[i], uses)]

-----------------------------------------------------------------------------
(* analysis/unused.rs *)

\* unused_names with the difference taken the wrong way round
unused_names_swapped(defs, uses) == used_names(uses) \ defined_names(defs)

\* defined_names.difference(&used_names)
unused_names(defs, uses) == defined_names(defs) \ used_names(uses)

\* the issue pushed for one unused name
UnusedIssue(name, defs) ==
  LET ds == SelectSeq(defs, LAMBDA d : d.name = name)
      locations == [i \in DOMAIN ds |->
                      [file |-> ds[i].source_file, line |-> ds[i].line,
                       column |-> None]]
  IN [kind |-> "UnusedEnvVar",
      severity |-> "Warning",
      var_name |-> name,
      message |-> [text |-> "defined but never used", count |-> 0],
      locations |-> locations,
      suggestion |-> [text |-> "Remove from your .env file", name |-> name]]

\* find_unused_vars with one issue for every definition of an unused name
find_unused_vars_per_definition(defs, uses, order) ==
  Flatten([i \in DOMAIN order |->
             LET ds == SelectSeq(defs, LAMBDA d : d.name = order[i])
             IN [k \in DOMAIN ds |-> UnusedIssue(order[i], <<ds[k]>>)]])

\* find_unused_vars; order is the order in which the hash set difference
\* yields the unused names
find_unused_vars(defs, uses, order) ==
  [i \in DOMAIN order |-> UnusedIssue(order[i], defs)]

-----------------------------------------------------------------------------
(* analysis/naming.rs *)

\* ignore_regexes that gives up all patterns when one does not compile
ignore_regexes_all_or_nothing(ignore_patterns) ==
  LET compiled == [i \in DOMAIN ignore_patterns |-> RegexNew(ignore_patterns[i])]
  IN IF \A i \in DOMAIN compiled : compiled[i].ok THEN compiled ELSE <<>>

\* ignore_patterns.iter().filter_map(|p| Regex::new(p).ok())
ignore_regexes(ignore_patterns) ==
  LET compiled == [i \in DOMAIN ignore_patterns |-> RegexNew(ignore_patterns[i])]
  IN SelectSeq(compiled, LAMBDA re : re.ok)

\* is_ignored matching the preferred name of the rule as well
is_ignored_preferred(alt_name, rule, regexes) ==
  \E i \in DOMAIN regexes :
    is_match(regexes[i], alt_name) \/ is_match(regexes[i], rule.preferred)

\* ignore_regexes.iter().any(|re| re.is_match(alt_name))
is_ignored(alt_name, rule, regexes) ==
  \E i \in DOMAIN regexes : is_match(regexes[i], alt_name)

\* the order of the sort of the locations: by file, then by line
LocationLess(a, b) ==
  \/ PathCmp(a.file, b.file) < 0
  \/ (PathCmp(a.file, b.file) = 0 /\ a.line < b.line)

\* sort_locations that leaves the locations in the order of the pushes
sort_locations_unsorted(locs) == locs

\* locations.sort_by(..): a stable sort, every location goes to the position
\* after the locations that are smaller or are equal and come earlier
sort_locations(locs) ==
  LET rank == [i \in DOMAIN locs |->
                 1 + Cardinality({j \in DOMAIN locs :
                       \/ LocationLess(locs[j], locs[i])
                       \/ (~LocationLess(locs[i], locs[j]) /\ j < i)})]
  IN [k \in DOMAIN locs |-> locs[CHOOSE i \in DOMAIN locs : rank[i] = k]]

RECURSIVE dedup_by(_)
\* Vec::dedup_by on equal (file, line): the first of each run is kept
dedup_by(locs) ==
  IF Len(locs) <= 1 THEN locs
  ELSE LET rest == dedup_by(Tail(locs))
       IN IF PathCmp(locs[1].file, rest[1].file) = 0 /\ locs[1].line = rest[1].line
            THEN <<locs[1]>> \o Tail(rest)
            ELSE <<locs[1]>> \o rest

\* the issue pushed for one present alternative of a rule
NamingIssue(alt_name, rule, defs, uses) ==
  LET ds == SelectSeq(defs, LAMBDA d : d.name = alt_name)
      us == SelectSeq(uses, LAMBDA u : u.name = alt_name)
      locations ==
        [i \in DOMAIN ds |->
           [file |-> ds[i].source_file, line |-> ds[i].line, column |-> None]]
        \o [i \in DOMAIN us |->
           [file |-> us[i].file_path, line |-> us[i].line, column |-> us[i].column]]
  IN [kind |-> "InconsistentNaming",
      severity |-> rule.severity,
      var_name |-> alt_name,
      message |-> [text |-> "could be renamed", count |-> 0],
      locations |-> dedup_by(sort_locations(locations)),
      suggestion |-> [text |-> rule.description, name |-> rule.preferred]]

\* reported_alternatives without the test that the alternative is present
reported_alternatives_absent(rule, defs, uses, regexes) ==
  SelectSeq(rule.alternatives, LAMBDA alt : ~is_ignored(alt, rule, regexes))

\* the alternatives of a rule that get an issue, in the order of the rule
reported_alternatives(rule, defs, uses, regexes) ==
  LET all_names == defined_names(defs) \cup used_names(uses)
      present_alternatives == SelectSeq(rule.alternatives, LAMBDA alt : alt \in all_names)
  IN SelectSeq(present_alternatives, LAMBDA alt : ~is_ignored(alt, rule, regexes))

\* find_naming_issues
find_naming_issues(defs, uses, rules, ignore_patterns) ==
  LET regexes == ignore_regexes(ignore_patterns)
      perRule(rule) ==
        LET alts == reported_alternatives(rule, defs, uses, regexes)
        IN [i \in DOMAIN alts |-> NamingIssue(alts[i], rule, defs, uses)]
  IN Flatten([r \in DOMAIN rules |-> perRule(rules[r])])

-----------------------------------------------------------------------------
(* analysis/mod.rs *)

\* IssueLess with the severities ascending
IssueLess_ascending(a, b) ==
  \/ SeverityOrd(a.severity) < SeverityOrd(b.severity)
  \/ (a.severity = b.severity /\ StrCmp(a.var_name, b.var_name) < 0)

\* IssueLess without the tie-break on var_name
IssueLess_severity_only(a, b) ==
  SeverityOrd(b.severity) < SeverityOrd(a.severity)

\* the comparator of the final sort: severity descending, then var_name
IssueLess(a, b) ==
  \/ SeverityOrd(b.severity) < SeverityOrd(a.severity)
  \/ (a.severity = b.severity /\ StrCmp(a.var_name, b.var_name) < 0)

\* issues.sort_by(..) of analyze, on the issues of the three analyses: a
\* stable sort, every issue goes to the position after the issues that are
\* smaller or are equal and come earlier
sort_issues(all) ==
  LET rank == [i \in DOMAIN all |->
                 1 + Cardinality({j \in DOMAIN all :
                       \/ IssueLess(all[j], all[i])
                       \/ (~IssueLess(all[i], all[j]) /\ j < i)})]
  IN [k \in DOMAIN all |-> all[CHOOSE i \in DOMAIN all : rank[i] = k]]

\* analyze; mo and uo are the iteration orders of the two hash sets
analyze(defs, uses, cfg, mo, uo) ==
  sort_issues(find_missing_vars(defs, uses, mo)
                \o find_unused_vars(defs, uses, uo)
                \o find_naming_issues(defs, uses, get_all_rules(cfg),
                                      cfg.ignore_patterns))

-----------------------------------------------------------------------------
(* The facts and configurations handed to the analysis *)

Names == {API_KEY, DATABASE_URL, DB_URL, U_INTERNAL_VAR}

\* the definitions and usages of the unit tests of the analysis modules
\* (make_definition, make_usage), for every name
DefFacts ==
  {[name |-> n, value |-> <<>>, source_file |-> DotEnv, line |-> 1] : n \in Names}

UseFacts ==
  {[name |-> n, file_path |-> SrcAppJs, line |-> 10, column |-> 5,
    language |-> "JavaScript", context |-> <<>>] : n \in Names}

CustomRuleLists ==
  { <<>>,
    \* the rule of test_ignore_pattern as an error, and the rule of
    \* test_naming_issue_found as an info, listing DB_URL twice
    << [name |-> "internal", description |-> None,
        alternatives |-> <<U_INTERNAL_VAR>>, preferred |-> INTERNAL_VAR,
        severity |-> "error"],
       [name |-> "test-rule", description |-> "Test rule",
        alternatives |-> <<DB_URL, DB_HOST, DB_URL>>, preferred |-> DATABASE_URL,
        severity |-> "info"] >> }

IgnoreLists ==
  { <<>>,
    << <<94, 95>> >>,                                        \* ^_
    << <<40>>, <<68, 65, 84, 65, 66, 65, 83, 69>> >>,        \* ( and DATABASE
    << <<40>>, <<94, 68, 66, 95>> >> }                       \* ( and ^DB_

\* a custom rule that lists its preferred name among its alternatives
SelfRule ==
  [name |-> "api-key", description |-> None,
   alternatives |-> <<API_KEY, DB_URL>>, preferred |-> API_KEY,
   severity |-> "warning"]

Configs ==
  [builtin_rules : BOOLEAN, custom_rules : CustomRuleLists,
   ignore_patterns : IgnoreLists]
  \cup {[builtin_rules |-> FALSE, custom_rules |-> <<SelfRule>>,
         ignore_patterns |-> <<>>]}

NoConfig == [builtin_rules |-> FALSE, custom_rules |-> <<>>, ignore_patterns |-> <<>>]

-----------------------------------------------------------------------------
(* The analysis of collected facts (run_scan, from the facts on) *)

InitAnalysis ==
  /\ pc = "collect"
  /\ config \in Configs
  /\ definitions = <<>>
  /\ usages = <<>>
  /\ envContent = <<>>
  /\ srcPath = <<>>
  /\ srcContent = <<>>
  /\ missing = <<>>
  /\ unused = <<>>
  /\ naming = <<>>
  /\ issues = <<>>
  /\ NoRun

\* definitions.extend(..): one more definition reaches the analysis
CollectDefinition ==
  /\ pc = "collect"
  /\ Len(definitions) + Len(usages) < MaxFacts
  /\ \E d \in DefFacts : definitions' = Append(definitions, d)
  /\ UNCHANGED <<envContent, srcPath, srcContent, usages, config,
                 missing, unused, naming, issues, pc, runVars>>

\* one more usage reaches the analysis
CollectUsage ==
  /\ pc = "collect"
  /\ Len(definitions) + Len(usages) < MaxFacts
  /\ \E u \in UseFacts : usages' = Append(usages, u)
  /\ UNCHANGED <<envContent, definitions, srcPath, srcContent, config,
                 missing, unused, naming, issues, pc, runVars>>

\* the number of names up to which a hash set is iterated in every order
MaxOrders == 4

\* the names of a set in ascending order
Ascending(S) ==
  [k \in 1..Cardinality(S) |->
     CHOOSE n \in S : Cardinality({x \in S : StrCmp(x, n) < 0}) = k - 1]

\* the orders in which a hash set of names is iterated: every order of a set
\* of at most MaxOrders names, the ascending and the descending order of a
\* larger set
IterationOrders(S) ==
  IF Cardinality(S) <= MaxOrders
    THEN Perms(S)
    ELSE {Ascending(S),
          [k \in 1..Cardinality(S) |-> Ascending(S)[Cardinality(S) + 1 - k]]}

\* analyze(&definitions, &usages, &config); the hash sets of the missing and
\* of the unused names iterate in any order
Analyze ==
  /\ pc = "collect"
  /\ \E mo \in IterationOrders(missing_names(definitions, usages)),
        uo \in IterationOrders(unused_names(definitions, usages)) :
       /\ missing' = find_missing_vars(definitions, usages, mo)
       /\ unused' = find_unused_vars(definitions, usages, uo)
  /\ naming' = find_naming_issues(definitions, usages, get_all_rules(config),
                                  config.ignore_patterns)
  /\ issues' = sort_issues(missing' \o unused' \o naming')
  /\ pc' = "analyzed"
  /\ UNCHANGED <<envContent, definitions, srcPath, srcContent, usages, config,
                 runVars>>

NextAnalysis == CollectDefinition \/ CollectUsage \/ Analyze

SpecAnalysis == InitAnalysis /\ [][NextAnalysis]_vars

Analyzed == pc = "analyzed"

\* the names of a sequence of facts, in order
NamesOf(facts) == [i \in DOMAIN facts |-> facts[i].name]

\* the number of issues of a sequence that are about a name
CountFor(iss, n) == Cardinality({i \in DOMAIN iss : iss[i].var_name = n})

IsUsed(n) == \E u \in DOMAIN usages : usages[u].name = n
IsDefined(n) == \E d \in DOMAIN definitions : definitions[d].name = n

\* one fixed iteration order of a set, the order of a reference run
RefOrder(S) == CHOOSE p \in Perms(S) : TRUE

-----------------------------------------------------------------------------
(* Properties of the analysis *)

\* C1: find_missing_vars returns exactly one MissingEnvVar issue of severity
\* Error for each distinct name that is used and not defined, and no issue
\* for any other name, whatever the duplicates and the order of the facts.
C1_MissingExactlyUsedNotDefined ==
  Analyzed =>
    /\ \A i \in DOMAIN missing :
         /\ missing[i].kind = "MissingEnvVar"
         /\ missing[i].severity = "Error"
         /\ IsUsed(missing[i].var_name)
         /\ ~IsDefined(missing[i].var_name)
    /\ \A u \in DOMAIN usages :
         ~IsDefined(usages[u].name) => CountFor(missing, usages[u].name) = 1

\* definitions {API_KEY}, usages {API_KEY, DATABASE_URL}: one Error issue,
\* for DATABASE_URL
C1_Witness ==
  /\ Analyzed
  /\ NamesOf(definitions) = <<API_KEY>>
  /\ NamesOf(usages) = <<API_KEY, DATABASE_URL>>
  /\ Len(missing) = 1
  /\ missing[1].var_name = DATABASE_URL
  /\ missing[1].severity = "Error"

\* C2: find_unused_vars returns exactly one UnusedEnvVar issue of severity
\* Warning for each distinct name that is defined and not used, and no issue
\* for any other name; when the defined and the used names are the same set
\* there is no Missing and no Unused issue.
C2_UnusedExactlyDefinedNotUsed ==
  Analyzed =>
    /\ \A i \in DOMAIN unused :
         /\ unused[i].kind = "UnusedEnvVar"
         /\ unused[i].severity = "Warning"
         /\ IsDefined(unused[i].var_name)
         /\ ~IsUsed(unused[i].var_name)
    /\ \A d \in DOMAIN definitions :
         ~IsUsed(definitions[d].name) => CountFor(unused, definitions[d].name) = 1
    /\ ((\A d \in DOMAIN definitions : IsUsed(definitions[d].name))
         /\ (\A u \in DOMAIN usages : IsDefined(usages[u].name)))
        => (missing = <<>> /\ unused = <<>>)

\* a name defined twice and never used gets one Warning issue, next to a name
\* that is defined and used
C2_Witness ==
  /\ Analyzed
  /\ NamesOf(definitions) = <<DB_URL, DB_URL>>
  /\ NamesOf(usages) = <<API_KEY>>
  /\ Len(unused) = 1
  /\ unused[1].var_name = DB_URL
  /\ unused[1].severity = "Warning"
  /\ Len(unused[1].locations) = 2

\* C3: in the result of analyze every issue is followed by an issue of the
\* same or a lower severity (Error first), and among equal severities by a
\* var_name that is not smaller, for the issues of all three kinds together.
C3_IssuesSorted ==
  Analyzed =>
    \A i \in 1..(Len(issues) - 1) :
      /\ SeverityOrd(issues[i].severity) >= SeverityOrd(issues[i + 1].severity)
      /\ issues[i].severity = issues[i + 1].severity
           => StrCmp(issues[i].var_name, issues[i + 1].var_name) <= 0

\* a result with issues of the three kinds and of the three severities
C3_Witness ==
  /\ Analyzed
  /\ {issues[i].kind : i \in DOMAIN issues}
       = {"MissingEnvVar", "UnusedEnvVar", "InconsistentNaming"}
  /\ {issues[i].severity : i \in DOMAIN issues} = Severity
  /\ \E i \in DOMAIN issues :
       issues[i].kind = "InconsistentNaming" /\ issues[i].severity = "Error"

\* C4: the result of analyze is the result of a reference run on the same
\* definitions, usages and configuration, whatever order the hash sets of
\* this run iterate in; so any two runs return the identical sequence.
C4_AnalyzeDeterministic ==
  Analyzed =>
    issues = analyze(definitions, usages, config,
                     RefOrder(missing_names(definitions, usages)),
                     RefOrder(unused_names(definitions, usages)))

\* a run whose hash set yields the missing names in another order than the
\* reference run, with two issues of the same severity and var_name
C4_Witness ==
  /\ Analyzed
  /\ Len(missing) >= 2
  /\ missing # find_missing_vars(definitions, usages,
                                 RefOrder(missing_names(definitions, usages)))
  /\ \E i, j \in DOMAIN issues :
       /\ i # j
       /\ issues[i].severity = issues[j].severity
       /\ issues[i].var_name = issues[j].var_name

\* the rules of the configuration that list a name among their alternatives
RulesListing(n) ==
  LET rules == get_all_rules(config)
  IN {r \in DOMAIN rules :
        \E a \in DOMAIN rules[r].alternatives : rules[r].alternatives[a] = n}

\* a name matches a pattern of the ignore list that compiles
MatchesIgnore(n) ==
  \E p \in DOMAIN config.ignore_patterns :
    /\ RegexNew(config.ignore_patterns[p]).ok
    /\ is_match(RegexNew(config.ignore_patterns[p]), n)

\* C5: find_naming_issues emits, for each rule and each name, exactly one
\* InconsistentNaming issue when the name is an alternative of the rule, is
\* defined or used and matches no ignore pattern, and none otherwise.
C5_OneNamingIssuePerRuleAndName ==
  Analyzed =>
    /\ \A i \in DOMAIN naming : naming[i].kind = "InconsistentNaming"
    /\ \A n \in Names \cup {DB_HOST} :
         CountFor(naming, n) =
           IF (IsDefined(n) \/ IsUsed(n)) /\ ~MatchesIgnore(n)
             THEN Cardinality(RulesListing(n))
             ELSE 0

\* an issue of the result is a naming issue that the ignore list suppresses
Suppressed(issue) ==
  issue.kind = "InconsistentNaming" /\ MatchesIgnore(issue.var_name)

\* C6: the result of analyze with an ignore list is the result with the empty
\* ignore list without the naming issues whose var_name matches a pattern;
\* Missing and Unused issues and the other naming issues are unchanged.
C6_IgnoreSuppressesOnlyMatchingNaming ==
  Analyzed =>
    issues = SelectSeq(analyze(definitions, usages,
                               [config EXCEPT !.ignore_patterns = <<>>],
                               RefOrder(missing_names(definitions, usages)),
                               RefOrder(unused_names(definitions, usages))),
                       LAMBDA issue : ~Suppressed(issue))

\* _INTERNAL_VAR is used, not defined and an alternative of a rule; ^_ is
\* ignored: the Missing issue is reported and the naming issue is not
C6_Witness ==
  /\ Analyzed
  /\ config.ignore_patterns = << <<94, 95>> >>
  /\ RulesListing(U_INTERNAL_VAR) # {}
  /\ IsUsed(U_INTERNAL_VAR)
  /\ \E i \in DOMAIN issues :
       issues[i].kind = "MissingEnvVar" /\ issues[i].var_name = U_INTERNAL_VAR
  /\ \A i \in DOMAIN issues :
       issues[i].kind = "InconsistentNaming" => issues[i].var_name # U_INTERNAL_VAR
  /\ \E i \in DOMAIN issues : issues[i].kind = "InconsistentNaming"

\* the patterns of the ignore list that compile
Compilable(patterns) == SelectSeq(patterns, LAMBDA p : RegexNew(p).ok)

\* C20: find_naming_issues with an ignore list returns what it returns with
\* the list restricted to its patterns that compile, and the analysis ends
\* with a result whatever patterns do not compile.
C20_InvalidIgnorePatternDropped ==
  Analyzed =>
    /\ naming = find_naming_issues(definitions, usages, get_all_rules(config),
                                   Compilable(config.ignore_patterns))
    /\ \A i \in DOMAIN naming : ~MatchesIgnore(naming[i].var_name)
    /\ \A n \in Names :
         (/\ IsDefined(n) \/ IsUsed(n)
          /\ RulesListing(n) # {}
          /\ ~MatchesIgnore(n)) => CountFor(naming, n) >= 1

\* the list of `(` and `^DB_`: `(` is dropped, DB_URL is an alternative that
\* is used and gets no naming issue, _INTERNAL_VAR gets one
C20_Witness ==
  /\ Analyzed
  /\ config.ignore_patterns = << <<40>>, <<94, 68, 66, 95>> >>
  /\ Len(ignore_regexes(config.ignore_patterns)) = 1
  /\ IsUsed(DB_URL)
  /\ RulesListing(DB_URL) # {}
  /\ CountFor(naming, DB_URL) = 0
  /\ CountFor(naming, U_INTERNAL_VAR) = 1

-----------------------------------------------------------------------------
(* scanner/env_parser.rs *)

MinOf(S) == CHOOSE x \in S : \A y \in S : x <= y
MaxOf(S) == CHOOSE x \in S : \A y \in S : x >= y

\* char::is_whitespace, on the ASCII range: tab, LF, VT, FF, CR and space
is_whitespace(c) == c \in {9, 10, 11, 12, 13, 32}

\* char::is_ascii_alphabetic, is_ascii_digit, is_ascii_alphanumeric
is_ascii_alphabetic(c) == c \in 65..90 \/ c \in 97..122
is_ascii_digit(c) == c \in 48..57
is_ascii_alphanumeric(c) == is_ascii_alphabetic(c) \/ is_ascii_digit(c)

\* str::trim: without the leading and the trailing whitespace
trim(s) ==
  LET keep == {i \in DOMAIN s : ~is_whitespace(s[i])}
  IN IF keep = {} THEN <<>> ELSE SubSeq(s, MinOf(keep), MaxOf(keep))

\* str::starts_with and str::ends_with, for a string pattern
starts_with(s, prefix) ==
  Len(s) >= Len(prefix) /\ SubSeq(s, 1, Len(prefix)) = prefix
ends_with(s, suffix) ==
  Len(s) >= Len(suffix) /\ SubSeq(s, Len(s) - Len(suffix) + 1, Len(s)) = suffix

\* str::find for a character: the 1-based position of the first one, 0 for None
find(s, c) ==
  IF \E i \in DOMAIN s : s[i] = c THEN MinOf({i \in DOMAIN s : s[i] = c}) ELSE 0

ExportPrefix == <<101, 120, 112, 111, 114, 116, 32>>   \* "export "

\* is_valid_env_var_name without the check of the first character
is_valid_env_var_name_any_first(name) ==
  /\ name # <<>>
  /\ \A i \in DOMAIN name : is_ascii_alphanumeric(name[i]) \/ name[i] = 95

\* is_valid_env_var_name
is_valid_env_var_name(name) ==
  /\ name # <<>>
  /\ is_ascii_alphabetic(name[1]) \/ name[1] = 95
  /\ \A i \in 2..Len(name) : is_ascii_alphanumeric(name[i]) \/ name[i] = 95

\* strip_quotes that takes any two quote characters for a pair
strip_quotes_any_pair(str) ==
  LET s == trim(str)
  IN IF /\ Len(s) >= 2
        /\ s[1] \in {34, 39}
        /\ s[Len(s)] \in {34, 39}
       THEN SubSeq(s, 2, Len(s) - 1)
       ELSE s

\* strip_quotes
strip_quotes(str) ==
  LET s == trim(str)
  IN IF /\ \/ (starts_with(s, <<34>>) /\ ends_with(s, <<34>>))
           \/ (starts_with(s, <<39>>) /\ ends_with(s, <<39>>))
        /\ Len(s) >= 2
       THEN SubSeq(s, 2, Len(s) - 1)
       ELSE s

NoPair == [some |-> FALSE, name |-> <<>>, value |-> <<>>]

\* parse_env_line: Some((key, value)) or None
parse_env_line(trimmed) ==
  LET line == IF starts_with(trimmed, ExportPrefix)
                THEN SubSeq(trimmed, Len(ExportPrefix) + 1, Len(trimmed))
                ELSE trimmed
      eq_pos == find(line, 61)
      key == trim(SubSeq(line, 1, eq_pos - 1))
      value == trim(SubSeq(line, eq_pos + 1, Len(line)))
  IN IF eq_pos = 0 THEN NoPair
     ELSE IF ~is_valid_env_var_name(key) THEN NoPair
     ELSE [some |-> TRUE, name |-> key, value |-> strip_quotes(value)]

\* parse_env_file that keeps the last definition of every name only
parse_env_file_last_wins(path, content) ==
  LET perLine(i) ==
        LET line == trim(content[i])
        IN IF line = <<>> \/ starts_with(line, <<35>>) THEN <<>>
           ELSE IF parse_env_line(line).some
             THEN << [name |-> parse_env_line(line).name,
                      value |-> parse_env_line(line).value,
                      source_file |-> path,
                      line |-> i] >>
             ELSE <<>>
      all == Flatten([i \in DOMAIN content |-> perLine(i)])
      last == {i \in DOMAIN all :
                 \A j \in DOMAIN all : j > i => all[j].name # all[i].name}
      nth(k) == CHOOSE i \in last : Cardinality({j \in last : j <= i}) = k
  IN [k \in 1..Cardinality(last) |-> all[nth(k)]]

\* parse_env_file, on the lines of a file that could be read
parse_env_file(path, content) ==
  LET perLine(i) ==
        LET line == trim(content[i])
        IN IF line = <<>> \/ starts_with(line, <<35>>) THEN <<>>
           ELSE IF parse_env_line(line).some
             THEN << [name |-> parse_env_line(line).name,
                      value |-> parse_env_line(line).value,
                      source_file |-> path,
                      line |-> i] >>
             ELSE <<>>
  IN Flatten([i \in DOMAIN content |-> perLine(i)])

-----------------------------------------------------------------------------
(* The parse of one environment file *)

\* the length of the generated part of a line of the environment file
MaxEnvLine == 5

\* space, ", ', 1, = and A
EnvAlphabet == {32, 34, 39, 49, 61, 65}

\* every text over an alphabet of at most n characters
Texts(alphabet, n) == UNION {[1..k -> alphabet] : k \in 0..n}

\* what a generated line starts with: nothing, "export ", "export", "#"
EnvLinePrefixes == {<<>>, ExportPrefix, <<101, 120, 112, 111, 114, 116>>, <<35>>}

\* the lines of the examples of the specification and of the unit tests
EnvSampleLines ==
  { <<>>,
    <<35, 32, 99, 111, 109, 109, 101, 110, 116>>,             \* # comment
    <<49, 50, 51, 66, 65, 68, 61, 120>>,                      \* 123BAD=x
    ExportPrefix \o API_KEY
      \o <<61, 34, 97, 98, 99, 32, 49, 50, 51, 34>>,          \* export API_KEY="abc 123"
    <<69, 77, 80, 84, 89, 95, 86, 65, 82, 61>>,               \* EMPTY_VAR=
    <<78, 79, 69, 81>> }                                      \* NOEQ

\* the files: one generated line, or two or three lines of the examples
EnvFileContents ==
  {<<p \o b>> : p \in EnvLinePrefixes, b \in Texts(EnvAlphabet, MaxEnvLine)}
  \cup {<<a, b>> : a \in EnvSampleLines, b \in EnvSampleLines}
  \cup {<<a, b, c>> : a \in EnvSampleLines, b \in EnvSampleLines, c \in EnvSampleLines}

InitEnvFile ==
  /\ pc = "env"
  /\ envContent \in EnvFileContents
  /\ definitions = <<>>
  /\ usages = <<>>
  /\ config = NoConfig
  /\ srcPath = <<>>
  /\ srcContent = <<>>
  /\ missing = <<>>
  /\ unused = <<>>
  /\ naming = <<>>
  /\ issues = <<>>
  /\ NoRun

\* parse_env_file(env_file) of a readable file
ParseEnvFile ==
  /\ pc = "env"
  /\ definitions' = parse_env_file(DotEnv, envContent)
  /\ pc' = "parsed"
  /\ UNCHANGED <<envContent, srcPath, srcContent, usages, config,
                 missing, unused, naming, issues, runVars>>

NextEnvFile == ParseEnvFile

SpecEnvFile == InitEnvFile /\ [][NextEnvFile]_vars

Parsed == pc = "parsed"

-----------------------------------------------------------------------------
(* Properties of the environment-file parser *)

\* the line without one leading "export "
AfterExport(trimmed) ==
  IF Len(trimmed) >= 7 /\ SubSeq(trimmed, 1, 7) = ExportPrefix
    THEN SubSeq(trimmed, 8, Len(trimmed))
    ELSE trimmed

\* the identifier rule: an ASCII letter or underscore, then ASCII letters,
\* digits and underscores
IsIdentifier(s) ==
  /\ Len(s) >= 1
  /\ s[1] \in (65..90) \cup (97..122) \cup {95}
  /\ \A i \in 2..Len(s) : s[i] \in (65..90) \cup (97..122) \cup (48..57) \cup {95}

\* the text before the first '=' of a text that contains one
BeforeEq(s) == SubSeq(s, 1, MinOf({i \in DOMAIN s : s[i] = 61}) - 1)

\* the text after the first '=' of a text that contains one
AfterEq(s) == SubSeq(s, MinOf({i \in DOMAIN s : s[i] = 61}) + 1, Len(s))

HasEq(s) == \E i \in DOMAIN s : s[i] = 61

\* a line is not blank and not a comment
IsContentLine(line) == trim(line) # <<>> /\ trim(line)[1] # 35

\* the definitions that carry the number of a line
DefsOfLine(i) == {d \in DOMAIN definitions : definitions[d].line = i}

\* C7 as stated: a line yields a definition if and only if it is not blank,
\* is not a comment and, without one leading "export ", contains '=' and the
\* text before its first '=' satisfies the identifier rule.
C7_DefinitionIffIdentifierBeforeEq ==
  Parsed =>
    \A i \in DOMAIN envContent :
      (DefsOfLine(i) # {}) <=>
        /\ IsContentLine(envContent[i])
        /\ HasEq(AfterExport(trim(envContent[i])))
        /\ IsIdentifier(BeforeEq(AfterExport(trim(envContent[i]))))

\* C7, amended: a line yields exactly one definition if it is not blank, is
\* not a comment and, without one leading "export ", contains '=' and the text
\* before its first '=' satisfies the identifier rule once the whitespace
\* around it is trimmed; every other line yields no definition.
C7_DefinitionIffTrimmedIdentifierBeforeEq ==
  Parsed =>
    \A i \in DOMAIN envContent :
      Cardinality(DefsOfLine(i)) =
        IF /\ IsContentLine(envContent[i])
           /\ HasEq(AfterExport(trim(envContent[i])))
           /\ IsIdentifier(trim(BeforeEq(AfterExport(trim(envContent[i])))))
          THEN 1
          ELSE 0

\* the file of `123BAD=x` and `export API_KEY="abc 123"`: one definition, of
\* API_KEY, for the second line
C7_Witness ==
  /\ Parsed
  /\ envContent = << <<49, 50, 51, 66, 65, 68, 61, 120>>,
                     ExportPrefix \o API_KEY
                       \o <<61, 34, 97, 98, 99, 32, 49, 50, 51, 34>> >>
  /\ Len(definitions) = 1
  /\ definitions[1].name = API_KEY
  /\ definitions[1].line = 2

\* the value that C8 describes for the text after the first '='
ExpectedValue(rhs) ==
  LET t == trim(rhs)
  IN IF Len(t) >= 2 /\ t[1] = t[Len(t)] /\ t[1] \in {34, 39}
       THEN SubSeq(t, 2, Len(t) - 1)
       ELSE t

\* C8: the value of a definition is the text after the first '=' of its line,
\* trimmed, without one pair of surrounding quotes when the trimmed text has
\* at least two characters and starts and ends with the same quote character,
\* and unchanged otherwise.
C8_ValueIsTrimmedUnquotedRhs ==
  Parsed =>
    \A d \in DOMAIN definitions :
      definitions[d].value =
        ExpectedValue(AfterEq(AfterExport(trim(envContent[definitions[d].line]))))

\* `export API_KEY="abc 123"` gives the value `abc 123`
C8_Witness ==
  /\ Parsed
  /\ envContent = << ExportPrefix \o API_KEY
                       \o <<61, 34, 97, 98, 99, 32, 49, 50, 51, 34>>,
                     <<69, 77, 80, 84, 89, 95, 86, 65, 82, 61>> >>
  /\ Len(definitions) = 2
  /\ definitions[1].value = <<97, 98, 99, 32, 49, 50, 51>>
  /\ definitions[2].value = <<>>

-----------------------------------------------------------------------------
(* languages: the patterns of the extractors.  Every pattern but the       *)
(* destructuring one is a literal, optionally after a word boundary,       *)
(* optionally followed by `\s*\(\s*`, then the name [A-Z_][A-Z0-9_]*,      *)
(* either bare or between two quote characters, optionally followed by `]` *)

ProcessEnv == <<112, 114, 111, 99, 101, 115, 115, 46, 101, 110, 118>>   \* process.env

Pattern(lit, wordb, call, quotes, bracket) ==
  [lit |-> lit, wordb |-> wordb, call |-> call, quotes |-> quotes, bracket |-> bracket]

\* process\.env\.([A-Z_][A-Z0-9_]*)
PROCESS_ENV_DOT == Pattern(ProcessEnv \o <<46>>, FALSE, FALSE, {}, FALSE)
\* process\.env\[['"]([A-Z_][A-Z0-9_]*)['"]\]
PROCESS_ENV_BRACKET == Pattern(ProcessEnv \o <<91>>, FALSE, FALSE, {34, 39}, TRUE)
\* import\.meta\.env\.([A-Z_][A-Z0-9_]*)
IMPORT_META_ENV ==
  Pattern(<<105, 109, 112, 111, 114, 116, 46, 109, 101, 116, 97, 46, 101, 110, 118, 46>>,
          FALSE, FALSE, {}, FALSE)

\* os\.environ\[['"]([A-Z_][A-Z0-9_]*)['"]\]
OS_ENVIRON_BRACKET ==
  Pattern(<<111, 115, 46, 101, 110, 118, 105, 114, 111, 110, 91>>, FALSE, FALSE, {34, 39}, TRUE)
\* os\.environ\.get\s*\(\s*['"]([A-Z_][A-Z0-9_]*)['"]
OS_ENVIRON_GET ==
  Pattern(<<111, 115, 46, 101, 110, 118, 105, 114, 111, 110, 46, 103, 101, 116>>,
          FALSE, TRUE, {34, 39}, FALSE)
\* os\.getenv\s*\(\s*['"]([A-Z_][A-Z0-9_]*)['"]
OS_GETENV ==
  Pattern(<<111, 115, 46, 103, 101, 116, 101, 110, 118>>, FALSE, TRUE, {34, 39}, FALSE)
\* \benviron\[['"]([A-Z_][A-Z0-9_]*)['"]\]
ENVIRON_BRACKET ==
  Pattern(<<101, 110, 118, 105, 114, 111, 110, 91>>, TRUE, FALSE, {34, 39}, TRUE)
\* \benviron\.get\s*\(\s*['"]([A-Z_][A-Z0-9_]*)['"]
ENVIRON_GET ==
  Pattern(<<101, 110, 118, 105, 114, 111, 110, 46, 103, 101, 116>>, TRUE, TRUE, {34, 39}, FALSE)
\* \bgetenv\s*\(\s*['"]([A-Z_][A-Z0-9_]*)['"]
GETENV_DIRECT ==
  Pattern(<<103, 101, 116, 101, 110, 118>>, TRUE, TRUE, {34, 39}, FALSE)

\* ENV\[['"]([A-Z_][A-Z0-9_]*)['"]\]
ENV_BRACKET == Pattern(<<69, 78, 86, 91>>, FALSE, FALSE, {34, 39}, TRUE)
\* ENV\.fetch\s*\(\s*['"]([A-Z_][A-Z0-9_]*)['"]
ENV_FETCH ==
  Pattern(<<69, 78, 86, 46, 102, 101, 116, 99, 104>>, FALSE, TRUE, {34, 39}, FALSE)

\* (?:std::)?env::var\s*\(\s*"([A-Z_][A-Z0-9_]*)"; the optional `std::` moves
\* the start of the match only, the group and the end of the match are those
\* of the pattern without it
ENV_VAR == Pattern(<<101, 110, 118, 58, 58, 118, 97, 114>>, FALSE, TRUE, {34}, FALSE)
\* (?:std::)?env::var_os\s*\(\s*"([A-Z_][A-Z0-9_]*)"
ENV_VAR_OS ==
  Pattern(<<101, 110, 118, 58, 58, 118, 97, 114, 95, 111, 115>>, FALSE, TRUE, {34}, FALSE)
\* env!\s*\(\s*"([A-Z_][A-Z0-9_]*)"
ENV_MACRO == Pattern(<<101, 110, 118, 33>>, FALSE, TRUE, {34}, FALSE)
\* option_env!\s*\(\s*"([A-Z_][A-Z0-9_]*)"
OPTION_ENV_MACRO ==
  Pattern(<<111, 112, 116, 105, 111, 110, 95, 101, 110, 118, 33>>, FALSE, TRUE, {34}, FALSE)

\* go.rs: os\.Getenv, os\.LookupEnv and os\.Setenv, \s*\(\s*"([A-Z_][A-Z0-9_]*)"
GO_OS_GETENV == Pattern(<<111, 115, 46, 71, 101, 116, 101, 110, 118>>, FALSE, TRUE, {34}, FALSE)
OS_LOOKUP_ENV ==
  Pattern(<<111, 115, 46, 76, 111, 111, 107, 117, 112, 69, 110, 118>>, FALSE, TRUE, {34}, FALSE)
OS_SETENV == Pattern(<<111, 115, 46, 83, 101, 116, 101, 110, 118>>, FALSE, TRUE, {34}, FALSE)

\* getenv\s*\(\s*['"]([A-Z_][A-Z0-9_]*)['"]
GETENV == Pattern(<<103, 101, 116, 101, 110, 118>>, FALSE, TRUE, {34, 39}, FALSE)
\* \$_ENV\[['"]([A-Z_][A-Z0-9_]*)['"]\]
DOLLAR_ENV == Pattern(<<36, 95, 69, 78, 86, 91>>, FALSE, FALSE, {34, 39}, TRUE)
\* \$_SERVER\[['"]([A-Z_][A-Z0-9_]*)['"]\]
DOLLAR_SERVER ==
  Pattern(<<36, 95, 83, 69, 82, 86, 69, 82, 91>>, FALSE, FALSE, {34, 39}, TRUE)
\* \benv\s*\(\s*['"]([A-Z_][A-Z0-9_]*)['"]
LARAVEL_ENV == Pattern(<<101, 110, 118>>, TRUE, TRUE, {34, 39}, FALSE)

\* System\.getenv\s*\(\s*"([A-Z_][A-Z0-9_]*)"
SYSTEM_GETENV ==
  Pattern(<<83, 121, 115, 116, 101, 109, 46, 103, 101, 116, 101, 110, 118>>, FALSE, TRUE, {34}, FALSE)
\* System\.getProperty\s*\(\s*"([A-Z_][A-Z0-9_]*)"
SYSTEM_GETPROPERTY ==
  Pattern(<<83, 121, 115, 116, 101, 109, 46, 103, 101, 116, 80, 114, 111, 112, 101, 114, 116, 121>>,
          FALSE, TRUE, {34}, FALSE)

\* Environment\.GetEnvironmentVariable\s*\(\s*"([A-Z_][A-Z0-9_]*)"
ENVIRONMENT_GETENV ==
  Pattern(<<69, 110, 118, 105, 114, 111, 110, 109, 101, 110, 116, 46, 71, 101, 116, 69, 110, 118, 105, 114, 111, 110, 109, 101, 110, 116, 86, 97, 114, 105, 97, 98, 108, 101>>,
          FALSE, TRUE, {34}, FALSE)
\* ConfigurationManager\.AppSettings\[['"]([A-Z_][A-Z0-9_]*)['"]\]
CONFIG_MANAGER ==
  Pattern(<<67, 111, 110, 102, 105, 103, 117, 114, 97, 116, 105, 111, 110, 77, 97, 110, 97, 103, 101, 114, 46, 65, 112, 112, 83, 101, 116, 116, 105, 110, 103, 115, 91>>,
          FALSE, FALSE, {34, 39}, TRUE)

\* the character at a position of a line, 0 outside of the line
At(line, i) == IF i \in DOMAIN line THEN line[i] ELSE 0

\* the literal lit is in the line at position i
LitAt(line, i, lit) ==
  i >= 1 /\ i + Len(lit) - 1 <= Len(line) /\ SubSeq(line, i, i + Len(lit) - 1) = lit

\* \s*: the first position from j on that holds no whitespace
SkipWs(line, j) ==
  MinOf({k \in j..(Len(line) + 1) : k = Len(line) + 1 \/ ~is_whitespace(line[k])})

\* [A-Z_] and [A-Z0-9_]
is_name_start(c) == c \in 65..90 \/ c = 95
is_name_char(c) == c \in 65..90 \/ c \in 48..57 \/ c = 95

\* \w, on the ASCII range
is_word_char(c) == is_ascii_alphanumeric(c) \/ c = 95

\* the last position of the greedy [A-Z0-9_]* that starts at j
NameEnd(line, j) ==
  MaxOf({k \in j..Len(line) : \A m \in j..k : is_name_char(line[m])})

NoMatch == [ok |-> FALSE, start |-> 0, stop |-> 0, end |-> 0]

\* the match of a pattern that starts at position i: start and stop are the
\* first and last position of group 1, end is the position after the match
MatchAt(pat, line, i) ==
  IF ~LitAt(line, i, pat.lit) THEN NoMatch
  ELSE IF pat.wordb /\ is_word_char(At(line, i - 1)) THEN NoMatch
  ELSE
    LET afterLit == i + Len(pat.lit)
        paren == SkipWs(line, afterLit)
        afterCall == IF ~pat.call THEN afterLit
                     ELSE IF At(line, paren) = 40 THEN SkipWs(line, paren + 1)
                     ELSE 0
        nameStart == IF afterCall = 0 THEN 0
                     ELSE IF pat.quotes = {} THEN afterCall
                     ELSE IF At(line, afterCall) \in pat.quotes THEN afterCall + 1
                     ELSE 0
    IN IF nameStart = 0 \/ ~is_name_start(At(line, nameStart)) THEN NoMatch
       ELSE
         LET nameStop == NameEnd(line, nameStart)
             afterQuote == IF pat.quotes = {} THEN nameStop + 1
                           ELSE IF At(line, nameStop + 1) \in pat.quotes THEN nameStop + 2
                           ELSE 0
             matchEnd == IF afterQuote = 0 THEN 0
                         ELSE IF ~pat.bracket THEN afterQuote
                         ELSE IF At(line, afterQuote) = 93 THEN afterQuote + 1
                         ELSE 0
         IN IF matchEnd = 0 THEN NoMatch
            ELSE [ok |-> TRUE, start |-> nameStart, stop |-> nameStop, end |-> matchEnd]

RECURSIVE captures_from(_, _, _)
\* Regex::captures_iter: the leftmost match, then the matches after its end
captures_from(pat, line, from) ==
  LET starts == {i \in from..Len(line) : MatchAt(pat, line, i).ok}
  IN IF starts = {} THEN <<>>
     ELSE <<MatchAt(pat, line, MinOf(starts))>>
            \o captures_from(pat, line, MatchAt(pat, line, MinOf(starts)).end)

captures_iter(pat, line) == captures_from(pat, line, 1)

\* the usage pushed for a capture of a pattern
UsageOf(m, line, line_num, file_path, language) ==
  [name |-> SubSeq(line, m.start, m.stop),
   file_path |-> file_path,
   line |-> line_num,
   column |-> m.start,
   language |-> language,
   context |-> trim(line)]

\* the usages pushed for one pattern on one line
PatternUsages(pat, line, line_num, file_path, language) ==
  LET caps == captures_iter(pat, line)
  IN [c \in DOMAIN caps |-> UsageOf(caps[c], line, line_num, file_path, language)]

\* for pattern in &patterns { for cap in pattern.captures_iter(line) { push } }
LineUsages(patterns, line, line_num, file_path, language) ==
  Flatten([p \in DOMAIN patterns |->
             PatternUsages(patterns[p], line, line_num, file_path, language)])

-----------------------------------------------------------------------------
(* languages/javascript.rs *)

Keywords == {<<99, 111, 110, 115, 116>>, <<108, 101, 116>>, <<118, 97, 114>>}  \* const let var

\* (?:const|let|var)\s*\{\s*([^}]+)\s*\}\s*=\s*process\.env at position i
DestructureAt(line, i) ==
  IF ~\E kw \in Keywords : LitAt(line, i, kw) THEN NoMatch
  ELSE
    LET kw == CHOOSE k \in Keywords : LitAt(line, i, k)
        open == SkipWs(line, i + Len(kw))
        closes == {k \in (open + 1)..Len(line) : line[k] = 125}
    IN IF At(line, open) # 123 \/ closes = {} THEN NoMatch
       ELSE
         LET close == MinOf(closes)
             first == SkipWs(line, open + 1)
             \* an all-whitespace content gives its last character to the group
             groupStart == IF first < close THEN first ELSE close - 1
             eq == SkipWs(line, close + 1)
             env == SkipWs(line, eq + 1)
         IN IF close = open + 1 \/ At(line, eq) # 61 \/ ~LitAt(line, env, ProcessEnv)
              THEN NoMatch
              ELSE [ok |-> TRUE, start |-> groupStart, stop |-> close - 1,
                    end |-> env + Len(ProcessEnv)]

RECURSIVE destructure_from(_, _)
\* DESTRUCTURE_PROCESS_ENV.captures_iter(line)
destructure_from(line, from) ==
  LET starts == {i \in from..Len(line) : DestructureAt(line, i).ok}
  IN IF starts = {} THEN <<>>
     ELSE <<DestructureAt(line, MinOf(starts))>>
            \o destructure_from(line, DestructureAt(line, MinOf(starts)).end)

RECURSIVE split(_, _)
\* str::split on a character
split(s, c) ==
  IF find(s, c) = 0 THEN <<s>>
  ELSE <<SubSeq(s, 1, find(s, c) - 1)>> \o split(SubSeq(s, find(s, c) + 1, Len(s)), c)

\* JavaScriptScanner::extract_destructured_vars
extract_destructured_vars(capture) ==
  LET parts == split(capture, 44)
      name(i) == trim(split(trim(parts[i]), 58)[1])
      valid(n) == /\ \A k \in DOMAIN n :
                       n[k] \in 65..90 \/ is_ascii_digit(n[k]) \/ n[k] = 95
                  /\ n # <<>>
                  /\ (n[1] \in 65..90 \/ n[1] = 95)
  IN Flatten([i \in DOMAIN parts |-> IF valid(name(i)) THEN <<name(i)>> ELSE <<>>])

\* the usages pushed for the destructurings of one line
DestructureUsages(line, line_num, file_path) ==
  LET caps == destructure_from(line, 1)
      perCap(m) ==
        LET names == extract_destructured_vars(SubSeq(line, m.start, m.stop))
        IN [n \in DOMAIN names |->
              [name |-> names[n],
               file_path |-> file_path,
               line |-> line_num,
               column |-> m.start,
               language |-> "JavaScript",
               context |-> trim(line)]]
  IN Flatten([c \in DOMAIN caps |-> perCap(caps[c])])

\* JavaScriptScanner::scan
JavaScriptScan(content, file_path) ==
  Flatten([i \in DOMAIN content |->
             LineUsages(<<PROCESS_ENV_DOT, PROCESS_ENV_BRACKET, IMPORT_META_ENV>>,
                        content[i], i, file_path, "JavaScript")
             \o DestructureUsages(content[i], i, file_path)])

-----------------------------------------------------------------------------
(* languages/python.rs, languages/ruby.rs *)

\* if seen.insert((line_num, m.start(), name)) { push }: the first usage of
\* every (line, column, name) is kept
SeenFilter(us) ==
  LET key(u) == <<u.line, u.column, u.name>>
      keep == {i \in DOMAIN us : \A j \in 1..(i - 1) : key(us[j]) # key(us[i])}
      RECURSIVE pick(_)
      pick(i) == IF i > Len(us) THEN <<>>
                 ELSE (IF i \in keep THEN <<us[i]>> ELSE <<>>) \o pick(i + 1)
  IN pick(1)

\* PythonScanner::scan
PythonScan(content, file_path) ==
  SeenFilter(Flatten([i \in DOMAIN content |->
    LineUsages(<<OS_ENVIRON_BRACKET, OS_ENVIRON_GET, OS_GETENV,
                 ENVIRON_BRACKET, ENVIRON_GET, GETENV_DIRECT>>,
               content[i], i, file_path, "Python")]))

\* RubyScanner::scan
RubyScan(content, file_path) ==
  Flatten([i \in DOMAIN content |->
    LineUsages(<<ENV_BRACKET, ENV_FETCH>>, content[i], i, file_path, "Ruby")])

-----------------------------------------------------------------------------
(* languages/rust_lang.rs, go.rs, php.rs, java.rs, csharp.rs *)

\* RustScanner::scan, with the seen set of (line, column, name)
RustScan(content, file_path) ==
  SeenFilter(Flatten([i \in DOMAIN content |->
    LineUsages(<<ENV_VAR, ENV_VAR_OS, ENV_MACRO, OPTION_ENV_MACRO>>,
               content[i], i, file_path, "Rust")]))

\* GoScanner::scan
GoScan(content, file_path) ==
  Flatten([i \in DOMAIN content |->
    LineUsages(<<GO_OS_GETENV, OS_LOOKUP_ENV, OS_SETENV>>,
               content[i], i, file_path, "Go")])

\* PhpScanner::scan
PhpScan(content, file_path) ==
  Flatten([i \in DOMAIN content |->
    LineUsages(<<GETENV, DOLLAR_ENV, DOLLAR_SERVER, LARAVEL_ENV>>,
               content[i], i, file_path, "Php")])

\* JavaScanner::scan
JavaScan(content, file_path) ==
  Flatten([i \in DOMAIN content |->
    LineUsages(<<SYSTEM_GETENV, SYSTEM_GETPROPERTY>>,
               content[i], i, file_path, "Java")])

\* CSharpScanner::scan
CSharpScan(content, file_path) ==
  Flatten([i \in DOMAIN content |->
    LineUsages(<<ENVIRONMENT_GETENV, CONFIG_MANAGER>>,
               content[i], i, file_path, "CSharp")])

-----------------------------------------------------------------------------
(* languages/mod.rs, scanner/code_scanner.rs *)

\* the extensions() of the scanners of LanguageRegistry::new, in registration
\* order
ScannerExtensions ==
  << [scanner |-> "JavaScript",
      extensions |-> << <<106, 115>>, <<109, 106, 115>>, <<99, 106, 115>>,      \* js mjs cjs
                        <<106, 115, 120>>, <<116, 115>>, <<109, 116, 115>>,     \* jsx ts mts
                        <<99, 116, 115>>, <<116, 115, 120>> >>],                \* cts tsx
     [scanner |-> "Python", extensions |-> << <<112, 121>> >>],                 \* py
     [scanner |-> "Rust", extensions |-> << <<114, 115>> >>],                   \* rs
     [scanner |-> "Go", extensions |-> << <<103, 111>> >>],                     \* go
     [scanner |-> "Ruby", extensions |-> << <<114, 98>> >>],                    \* rb
     [scanner |-> "Php", extensions |-> << <<112, 104, 112>> >>],               \* php
     [scanner |-> "Java", extensions |-> << <<106, 97, 118, 97>> >>],           \* java
     [scanner |-> "CSharp", extensions |-> << <<99, 115>> >>] >>                \* cs

\* str::to_lowercase, on the ASCII range
to_lowercase(s) == [i \in DOMAIN s |-> IF s[i] \in 65..90 THEN s[i] + 32 ELSE s[i]]

\* Path::file_name: the text after the last '/'
file_name(path) ==
  LET slashes == {i \in DOMAIN path : path[i] = 47}
  IN IF slashes = {} THEN path ELSE SubSeq(path, MaxOf(slashes) + 1, Len(path))

\* Path::extension: the text of the file name after its last dot, None for a
\* file name without a dot after its first character
extension(path) ==
  LET name == file_name(path)
      dots == {i \in 2..Len(name) : name[i] = 46}
  IN IF dots = {} THEN [some |-> FALSE, ext |-> <<>>]
     ELSE [some |-> TRUE, ext |-> SubSeq(name, MaxOf(dots) + 1, Len(name))]

\* get_scanner_for_file comparing the extension as it is written
get_scanner_for_file_exact(path) ==
  IF ~extension(path).some THEN None
  ELSE LET ext == extension(path).ext
           claims == {s \in DOMAIN ScannerExtensions :
                        \E e \in DOMAIN ScannerExtensions[s].extensions :
                          ScannerExtensions[s].extensions[e] = ext}
       IN IF claims = {} THEN None ELSE ScannerExtensions[MinOf(claims)].scanner

\* LanguageRegistry::get_scanner_for_file: the first scanner that lists the
\* lowercased extension, None when there is none
get_scanner_for_file(path) ==
  IF ~extension(path).some THEN None
  ELSE LET ext == to_lowercase(extension(path).ext)
           claims == {s \in DOMAIN ScannerExtensions :
                        \E e \in DOMAIN ScannerExtensions[s].extensions :
                          ScannerExtensions[s].extensions[e] = ext}
       IN IF claims = {} THEN None ELSE ScannerExtensions[MinOf(claims)].scanner

\* CodeScanner::scan_file of a readable file
scan_file(path, content) ==
  CASE get_scanner_for_file(path) = "JavaScript" -> JavaScriptScan(content, path)
    [] get_scanner_for_file(path) = "Python" -> PythonScan(content, path)
    [] get_scanner_for_file(path) = "Rust" -> RustScan(content, path)
    [] get_scanner_for_file(path) = "Go" -> GoScan(content, path)
    [] get_scanner_for_file(path) = "Ruby" -> RubyScan(content, path)
    [] get_scanner_for_file(path) = "Php" -> PhpScan(content, path)
    [] get_scanner_for_file(path) = "Java" -> JavaScan(content, path)
    [] get_scanner_for_file(path) = "CSharp" -> CSharpScan(content, path)
    [] OTHER -> <<>>

-----------------------------------------------------------------------------
(* The scan of one source file *)

\* what comes before an access on a generated line: nothing or `x = `
Pads == {<<>>, <<120, 32, 61, 32>>}

\* the identifiers and string keys of the generated accesses:
\* FOO_BAR, _X1, API_Key, apiKey
Keys == {<<70, 79, 79, 95, 66, 65, 82>>, <<95, 88, 49>>,
         <<65, 80, 73, 95, 75, 101, 121>>, <<97, 112, 105, 75, 101, 121>>}

\* the literals in front of a bare name, of a bracketed key and of a call
DotLiterals == {PROCESS_ENV_DOT.lit, IMPORT_META_ENV.lit}
BracketLiterals == {PROCESS_ENV_BRACKET.lit, OS_ENVIRON_BRACKET.lit, ENV_BRACKET.lit,
                    DOLLAR_ENV.lit, CONFIG_MANAGER.lit}
CallLiterals == {OS_GETENV.lit, OS_ENVIRON_GET.lit, ENV_FETCH.lit,
                 <<115, 116, 100, 58, 58>> \o ENV_VAR.lit, ENV_VAR_OS.lit,   \* std::env::var
                 ENV_MACRO.lit, OPTION_ENV_MACRO.lit,
                 GO_OS_GETENV.lit, SYSTEM_GETENV.lit, ENVIRONMENT_GETENV.lit}

\* what a destructuring lists between the braces: `PORT`, `PORT, HOST`,
\* `A: a, A: b`, `PORT: port, debug`, ` ` and nothing
DestructuredLists ==
  {<<80, 79, 82, 84>>,
   <<80, 79, 82, 84, 44, 32, 72, 79, 83, 84>>,
   <<65, 58, 32, 97, 44, 32, 65, 58, 32, 98>>,
   <<80, 79, 82, 84, 58, 32, 112, 111, 114, 116, 44, 32, 100, 101, 98, 117, 103>>,
   <<32>>,
   <<>>}

\* the accesses: process.env.KEY, ENV['KEY'], os.getenv( "KEY"),
\* const { LIST } = process.env and let {LIST}=process.env
Accesses ==
  {l \o k : l \in DotLiterals, k \in Keys}
  \cup {l \o <<q>> \o k \o <<q>> \o <<93>> : l \in BracketLiterals, k \in Keys, q \in {34, 39}}
  \cup {l \o <<40>> \o s \o <<34>> \o k \o <<34>> :
          l \in CallLiterals, k \in Keys, s \in {<<>>, <<32>>}}
  \cup {<<99, 111, 110, 115, 116, 32, 123, 32>> \o d \o <<32, 125, 32, 61, 32>> \o ProcessEnv :
          d \in DestructuredLists}
  \cup {<<108, 101, 116, 123>> \o d \o <<125, 61>> \o ProcessEnv : d \in DestructuredLists}

\* the lines: an access after a pad, two accesses, or no access
SrcLines ==
  {p \o a : p \in Pads, a \in Accesses}
  \cup {a \o <<32>> \o a : a \in {l \o <<70>> : l \in DotLiterals \cup CallLiterals}
                                  \cup {OS_ENVIRON_BRACKET.lit \o <<39, 70, 39, 93>>}}
  \cup {<<>>, <<120>>}

\* the files: one line, or a line after another line
SrcContents ==
  {<<l>> : l \in SrcLines}
  \cup {<<f, l>> : f \in {<<>>, <<120, 32, 61, 32>> \o ENV_BRACKET.lit
                                 \o <<39, 70, 79, 79, 95, 66, 65, 82, 39, 93>>},
                   l \in SrcLines}

\* a.js, a.ts, a.py, a.rb, A.JS, a.txt, src/app.js, a.rs, a.go, a.php, a.java,
\* a.cs, Makefile and .js
SrcPaths ==
  {<<97, 46, 106, 115>>, <<97, 46, 116, 115>>, <<97, 46, 112, 121>>,
   <<97, 46, 114, 98>>, <<65, 46, 74, 83>>, <<97, 46, 116, 120, 116>>, SrcAppJs,
   <<97, 46, 114, 115>>, <<97, 46, 103, 111>>, <<97, 46, 112, 104, 112>>,
   <<97, 46, 106, 97, 118, 97>>, <<97, 46, 99, 115>>,
   <<77, 97, 107, 101, 102, 105, 108, 101>>, <<46, 106, 115>>}

InitScan ==
  /\ pc = "src"
  /\ srcPath \in SrcPaths
  /\ srcContent \in SrcContents
  /\ envContent = <<>>
  /\ definitions = <<>>
  /\ usages = <<>>
  /\ config = NoConfig
  /\ missing = <<>>
  /\ unused = <<>>
  /\ naming = <<>>
  /\ issues = <<>>
  /\ NoRun

\* CodeScanner::scan_file(path) of a readable file
ScanFile ==
  /\ pc = "src"
  /\ usages' = scan_file(srcPath, srcContent)
  /\ pc' = "scanned"
  /\ UNCHANGED <<envContent, definitions, srcPath, srcContent, config,
                 missing, unused, naming, issues, runVars>>

NextScan == ScanFile

SpecScan == InitScan /\ [][NextScan]_vars

Scanned == pc = "scanned"

-----------------------------------------------------------------------------
(* Properties of the extractors *)

\* a character of an identifier or of a key: a letter, a digit or '_'
IsIdentChar(c) == c \in (65..90) \cup (97..122) \cup (48..57) \cup {95}

\* the canonical shape: [A-Z_] then [A-Z0-9_]*
IsCanonical(n) ==
  /\ Len(n) >= 1
  /\ n[1] \in (65..90) \cup {95}
  /\ \A i \in 2..Len(n) : n[i] \in (65..90) \cup (48..57) \cup {95}

\* the text n stands in the line at position p as a whole identifier or key
WholeAt(line, n, p) ==
  /\ p >= 1
  /\ p + Len(n) - 1 <= Len(line)
  /\ SubSeq(line, p, p + Len(n) - 1) = n
  /\ (p = 1 \/ ~IsIdentChar(line[p - 1]))
  /\ (p + Len(n) > Len(line) \/ ~IsIdentChar(line[p + Len(n)]))

\* C9: every usage carries a name of the canonical shape that is a whole
\* identifier or string key of its line; an access whose identifier or key
\* contains a lowercase letter produces no usage.
C9_NameCanonicalAndWhole ==
  Scanned =>
    \A u \in DOMAIN usages :
      /\ IsCanonical(usages[u].name)
      /\ usages[u].line \in DOMAIN srcContent
      /\ \E p \in DOMAIN srcContent[usages[u].line] :
           WholeAt(srcContent[usages[u].line], usages[u].name, p)

\* C10: every usage has the number of its physical line and the column of
\* the first character of its own name in that untrimmed line.
C10_LineAndColumnOfName ==
  Scanned =>
    \A u \in DOMAIN usages :
      /\ usages[u].line \in DOMAIN srcContent
      /\ usages[u].column >= 1
      /\ usages[u].column + Len(usages[u].name) - 1 <= Len(srcContent[usages[u].line])
      /\ SubSeq(srcContent[usages[u].line], usages[u].column,
                usages[u].column + Len(usages[u].name) - 1) = usages[u].name

\* C11: in the result of one scan call of any extractor no two usages have
\* the same line, column and name.
C11_NoTwoUsagesOfOneSpan ==
  Scanned =>
    \A u, v \in DOMAIN usages :
      (/\ usages[u].line = usages[v].line
       /\ usages[u].column = usages[v].column
       /\ usages[u].name = usages[v].name) => u = v

-----------------------------------------------------------------------------
(* The files of a project.  The project of the model has its files at its   *)
(* root, none of them ignored or excluded; a file keeps one content.        *)

Root == <<46>>                                                   \* cli.path: .

\* Path::join of a base and a relative name
join(base, name) == base \o <<47>> \o name

EnvLocal == <<46, 101, 110, 118, 46, 108, 111, 99, 97, 108>>     \* .env.local
EnvExample == <<46, 101, 110, 118, 46, 101, 120, 97, 109, 112, 108, 101>>  \* .env.example
APy == <<97, 46, 112, 121>>                                      \* a.py
BJs == <<98, 46, 106, 115>>                                      \* b.js
CTxt == <<99, 46, 116, 120, 116>>                                \* c.txt
APP_SECRET == <<65, 80, 80, 95, 83, 69, 67, 82, 69, 84>>

\* ScanConfig::default().env_files
default_env_files == <<DotEnv, EnvLocal, EnvExample>>

-----------------------------------------------------------------------------
(* config.rs: the configuration file.  A file named by a relative path is   *)
(* the file of that path under the current directory.                       *)

ConfigName == <<46, 101, 110, 118, 45, 97, 117, 100, 105, 116, 46, 116, 111, 109, 108>>   \* .env-audit.toml
Proj == <<47, 112>>                                               \* /p

\* the file a path names: an absolute path or a path that starts with ./ as
\* it is, another path under the current directory
resolve(path) ==
  IF starts_with(path, <<47>>) \/ starts_with(path, <<46, 47>>)
    THEN path
    ELSE join(Root, path)

\* Config::generate_default: the lines of the file that init writes
generate_default ==
  <<
    \* # env-audit configuration file
    <<35, 32, 101, 110, 118, 45, 97, 117, 100, 105, 116, 32, 99, 111, 110,
      102, 105, 103, 117, 114, 97, 116, 105, 111, 110, 32, 102, 105, 108, 101>>,
    \* (an empty line)
    <<>>,
    \* [scan]
    <<91, 115, 99, 97, 110, 93>>,
    \* # Env files to parse (relative to project root)
    <<35, 32, 69, 110, 118, 32, 102, 105, 108, 101, 115, 32, 116, 111, 32,
      112, 97, 114, 115, 101, 32, 40, 114, 101, 108, 97, 116, 105, 118, 101, 32,
      116, 111, 32, 112, 114, 111, 106, 101, 99, 116, 32, 114, 111, 111, 116,
      41>>,
    \* env_files = [".env", ".env.local", ".env.example"]
    <<101, 110, 118, 95, 102, 105, 108, 101, 115, 32, 61, 32, 91, 34, 46, 101,
      110, 118, 34, 44, 32, 34, 46, 101, 110, 118, 46, 108, 111, 99, 97, 108,
      34, 44, 32, 34, 46, 101, 110, 118, 46, 101, 120, 97, 109, 112, 108, 101,
      34, 93>>,
    \* (an empty line)
    <<>>,
    \* # Glob patterns to include in scan
    <<35, 32, 71, 108, 111, 98, 32, 112, 97, 116, 116, 101, 114, 110, 115, 32,
      116, 111, 32, 105, 110, 99, 108, 117, 100, 101, 32, 105, 110, 32, 115, 99,
      97, 110>>,
    \* include = ["**/*"]
    <<105, 110, 99, 108, 117, 100, 101, 32, 61, 32, 91, 34, 42, 42, 47, 42,
      34, 93>>,
    \* (an empty line)
    <<>>,
    \* # Glob patterns to exclude from scan
    <<35, 32, 71, 108, 111, 98, 32, 112, 97, 116, 116, 101, 114, 110, 115, 32,
      116, 111, 32, 101, 120, 99, 108, 117, 100, 101, 32, 102, 114, 111, 109,
      32, 115, 99, 97, 110>>,
    \* exclude = [
    <<101, 120, 99, 108, 117, 100, 101, 32, 61, 32, 91>>,
    \*     "**/node_modules/**",
    <<32, 32, 32, 32, 34, 42, 42, 47, 110, 111, 100, 101, 95, 109, 111, 100,
      117, 108, 101, 115, 47, 42, 42, 34, 44>>,
    \*     "**/target/**",
    <<32, 32, 32, 32, 34, 42, 42, 47, 116, 97, 114, 103, 101, 116, 47, 42, 42,
      34, 44>>,
    \*     "**/vendor/**",
    <<32, 32, 32, 32, 34, 42, 42, 47, 118, 101, 110, 100, 111, 114, 47, 42,
      42, 34, 44>>,
    \*     "**/.git/**",
    <<32, 32, 32, 32, 34, 42, 42, 47, 46, 103, 105, 116, 47, 42, 42, 34, 44>>,
    \*     "**/dist/**",
    <<32, 32, 32, 32, 34, 42, 42, 47, 100, 105, 115, 116, 47, 42, 42, 34, 44>>,
    \*     "**/build/**",
    <<32, 32, 32, 32, 34, 42, 42, 47, 98, 117, 105, 108, 100, 47, 42, 42, 34,
      44>>,
    \* ]
    <<93>>,
    \* (an empty line)
    <<>>,
    \* # Languages to scan (comment out for all supported languages)
    <<35, 32, 76, 97, 110, 103, 117, 97, 103, 101, 115, 32, 116, 111, 32, 115,
      99, 97, 110, 32, 40, 99, 111, 109, 109, 101, 110, 116, 32, 111, 117, 116,
      32, 102, 111, 114, 32, 97, 108, 108, 32, 115, 117, 112, 112, 111, 114,
      116, 101, 100, 32, 108, 97, 110, 103, 117, 97, 103, 101, 115, 41>>,
    \* # languages = ["javascript", "typescript", "python", "rust", "go", "ruby", "php", "java", "csharp"]
    <<35, 32, 108, 97, 110, 103, 117, 97, 103, 101, 115, 32, 61, 32, 91, 34,
      106, 97, 118, 97, 115, 99, 114, 105, 112, 116, 34, 44, 32, 34, 116, 121,
      112, 101, 115, 99, 114, 105, 112, 116, 34, 44, 32, 34, 112, 121, 116, 104,
      111, 110, 34, 44, 32, 34, 114, 117, 115, 116, 34, 44, 32, 34, 103, 111,
      34, 44, 32, 34, 114, 117, 98, 121, 34, 44, 32, 34, 112, 104, 112, 34, 44,
      32, 34, 106, 97, 118, 97, 34, 44, 32, 34, 99, 115, 104, 97, 114, 112, 34,
      93>>,
    \* (an empty line)
    <<>>,
    \* [naming]
    <<91, 110, 97, 109, 105, 110, 103, 93>>,
    \* # Use built-in naming conflict rules
    <<35, 32, 85, 115, 101, 32, 98, 117, 105, 108, 116, 45, 105, 110, 32, 110,
      97, 109, 105, 110, 103, 32, 99, 111, 110, 102, 108, 105, 99, 116, 32, 114,
      117, 108, 101, 115>>,
    \* builtin_rules = true
    <<98, 117, 105, 108, 116, 105, 110, 95, 114, 117, 108, 101, 115, 32, 61,
      32, 116, 114, 117, 101>>,
    \* (an empty line)
    <<>>,
    \* # Patterns to ignore (regex) - vars matching these won't trigger naming issues
    <<35, 32, 80, 97, 116, 116, 101, 114, 110, 115, 32, 116, 111, 32, 105,
      103, 110, 111, 114, 101, 32, 40, 114, 101, 103, 101, 120, 41, 32, 45, 32,
      118, 97, 114, 115, 32, 109, 97, 116, 99, 104, 105, 110, 103, 32, 116, 104,
      101, 115, 101, 32, 119, 111, 110, 39, 116, 32, 116, 114, 105, 103, 103,
      101, 114, 32, 110, 97, 109, 105, 110, 103, 32, 105, 115, 115, 117, 101,
      115>>,
    \* ignore_patterns = ["^_", "^INTERNAL_"]
    <<105, 103, 110, 111, 114, 101, 95, 112, 97, 116, 116, 101, 114, 110, 115,
      32, 61, 32, 91, 34, 94, 95, 34, 44, 32, 34, 94, 73, 78, 84, 69, 82, 78,
      65, 76, 95, 34, 93>>,
    \* (an empty line)
    <<>>,
    \* # Custom naming rules
    <<35, 32, 67, 117, 115, 116, 111, 109, 32, 110, 97, 109, 105, 110, 103,
      32, 114, 117, 108, 101, 115>>,
    \* # [[naming.custom_rules]]
    <<35, 32, 91, 91, 110, 97, 109, 105, 110, 103, 46, 99, 117, 115, 116, 111,
      109, 95, 114, 117, 108, 101, 115, 93, 93>>,
    \* # name = "database-url"
    <<35, 32, 110, 97, 109, 101, 32, 61, 32, 34, 100, 97, 116, 97, 98, 97,
      115, 101, 45, 117, 114, 108, 34>>,
    \* # description = "Database connection URL naming"
    <<35, 32, 100, 101, 115, 99, 114, 105, 112, 116, 105, 111, 110, 32, 61,
      32, 34, 68, 97, 116, 97, 98, 97, 115, 101, 32, 99, 111, 110, 110, 101, 99,
      116, 105, 111, 110, 32, 85, 82, 76, 32, 110, 97, 109, 105, 110, 103, 34>>,
    \* # alternatives = ["DB_URL", "DB_CONNECTION"]
    <<35, 32, 97, 108, 116, 101, 114, 110, 97, 116, 105, 118, 101, 115, 32,
      61, 32, 91, 34, 68, 66, 95, 85, 82, 76, 34, 44, 32, 34, 68, 66, 95, 67,
      79, 78, 78, 69, 67, 84, 73, 79, 78, 34, 93>>,
    \* # preferred = "DATABASE_URL"
    <<35, 32, 112, 114, 101, 102, 101, 114, 114, 101, 100, 32, 61, 32, 34, 68,
      65, 84, 65, 66, 65, 83, 69, 95, 85, 82, 76, 34>>,
    \* # severity = "warning"
    <<35, 32, 115, 101, 118, 101, 114, 105, 116, 121, 32, 61, 32, 34, 119, 97,
      114, 110, 105, 110, 103, 34>>,
    \* (an empty line)
    <<>>,
    \* [output]
    <<91, 111, 117, 116, 112, 117, 116, 93>>,
    \* # Default output format: "terminal", "json", "markdown", "html"
    <<35, 32, 68, 101, 102, 97, 117, 108, 116, 32, 111, 117, 116, 112, 117,
      116, 32, 102, 111, 114, 109, 97, 116, 58, 32, 34, 116, 101, 114, 109, 105,
      110, 97, 108, 34, 44, 32, 34, 106, 115, 111, 110, 34, 44, 32, 34, 109, 97,
      114, 107, 100, 111, 119, 110, 34, 44, 32, 34, 104, 116, 109, 108, 34>>,
    \* format = "terminal"
    <<102, 111, 114, 109, 97, 116, 32, 61, 32, 34, 116, 101, 114, 109, 105,
      110, 97, 108, 34>>,
    \* (an empty line)
    <<>>,
    \* # Show suggestions for fixing issues
    <<35, 32, 83, 104, 111, 119, 32, 115, 117, 103, 103, 101, 115, 116, 105,
      111, 110, 115, 32, 102, 111, 114, 32, 102, 105, 120, 105, 110, 103, 32,
      105, 115, 115, 117, 101, 115>>,
    \* show_suggestions = true
    <<115, 104, 111, 119, 95, 115, 117, 103, 103, 101, 115, 116, 105, 111,
      110, 115, 32, 61, 32, 116, 114, 117, 101>>,
    \* (an empty line)
    <<>>,
    \* # Group issues by type (true) or by file (false)
    <<35, 32, 71, 114, 111, 117, 112, 32, 105, 115, 115, 117, 101, 115, 32,
      98, 121, 32, 116, 121, 112, 101, 32, 40, 116, 114, 117, 101, 41, 32, 111,
      114, 32, 98, 121, 32, 102, 105, 108, 101, 32, 40, 102, 97, 108, 115, 101,
      41>>,
    \* group_by_type = true
    <<103, 114, 111, 117, 112, 95, 98, 121, 95, 116, 121, 112, 101, 32, 61,
      32, 116, 114, 117, 101>>,
    \* (an empty line)
    <<>>,
    \* # Minimum severity to report: "error", "warning", "info"
    <<35, 32, 77, 105, 110, 105, 109, 117, 109, 32, 115, 101, 118, 101, 114,
      105, 116, 121, 32, 116, 111, 32, 114, 101, 112, 111, 114, 116, 58, 32, 34,
      101, 114, 114, 111, 114, 34, 44, 32, 34, 119, 97, 114, 110, 105, 110, 103,
      34, 44, 32, 34, 105, 110, 102, 111, 34>>,
    \* min_severity = "info"
    <<109, 105, 110, 95, 115, 101, 118, 101, 114, 105, 116, 121, 32, 61, 32,
      34, 105, 110, 102, 111, 34>>,
    \* (an empty line)
    <<>>,
    \* # Output file path for non-terminal formats (optional)
    <<35, 32, 79, 117, 116, 112, 117, 116, 32, 102, 105, 108, 101, 32, 112,
      97, 116, 104, 32, 102, 111, 114, 32, 110, 111, 110, 45, 116, 101, 114,
      109, 105, 110, 97, 108, 32, 102, 111, 114, 109, 97, 116, 115, 32, 40, 111,
      112, 116, 105, 111, 110, 97, 108, 41>>,
    \* # output_file = "env-audit-report.json"
    <<35, 32, 111, 117, 116, 112, 117, 116, 95, 102, 105, 108, 101, 32, 61,
      32, 34, 101, 110, 118, 45, 97, 117, 100, 105, 116, 45, 114, 101, 112, 111,
      114, 116, 46, 106, 115, 111, 110, 34>>
  >>

\* a configuration file that init has not written: [naming] and
\* builtin_rules = false
UserToml ==
  << <<91, 110, 97, 109, 105, 110, 103, 93>>,
     <<98, 117, 105, 108, 116, 105, 110, 95, 114, 117, 108, 101, 115, 32, 61, 32, 102, 97, 108, 115, 101>> >>

\* the naming section of the configuration of generate_default
GeneratedConfig ==
  [builtin_rules |-> TRUE, custom_rules |-> <<>>,
   ignore_patterns |-> << <<94, 95>>, <<94, 73, 78, 84, 69, 82, 78, 65, 76, 95>> >>]   \* ^_ and ^INTERNAL_

\* the naming section of the configuration of UserToml
UserConfig == [builtin_rules |-> FALSE, custom_rules |-> <<>>, ignore_patterns |-> <<>>]

\* Config::default(), the configuration without a configuration file
DefaultConfig == [builtin_rules |-> TRUE, custom_rules |-> <<>>, ignore_patterns |-> <<>>]

\* toml::from_str on the contents of the configuration files of the model;
\* any other content is taken as one that does not parse
toml_from_str(content) ==
  CASE content = generate_default -> [ok |-> TRUE, config |-> GeneratedConfig]
    [] content = UserToml -> [ok |-> TRUE, config |-> UserConfig]
    [] OTHER -> [ok |-> FALSE, config |-> DefaultConfig]

-----------------------------------------------------------------------------
(* The files of the model *)

EnvPaths == {join(Root, DotEnv), join(Root, EnvLocal)}
SourcePaths == {join(Root, APy), join(Root, BJs), join(Root, CTxt)}
AllPaths == EnvPaths \cup SourcePaths

\* content.lines() of every file of the project
FileContent(path) ==
  CASE path = join(Root, DotEnv) ->
         << <<68, 66, 95, 85, 82, 76, 61, 49>>,                  \* DB_URL=1
            <<68, 66, 95, 85, 82, 76, 61, 50>>,                  \* DB_URL=2
            <<65, 80, 73, 95, 75, 69, 89, 61, 107>> >>           \* API_KEY=k
    [] path = join(Root, EnvLocal) ->
         << <<65, 80, 73, 95, 75, 69, 89, 61, 120>>,             \* API_KEY=x
            <<65, 80, 80, 95, 83, 69, 67, 82, 69, 84, 61, 115>> >>   \* APP_SECRET=s
    [] path = join(Root, APy) ->
         \* os.getenv("DB_URL") os.environ["DB_URL"]
         << <<111, 115, 46, 103, 101, 116, 101, 110, 118, 40, 34, 68, 66, 95, 85,
              82, 76, 34, 41, 32, 111, 115, 46, 101, 110, 118, 105, 114, 111, 110,
              91, 34, 68, 66, 95, 85, 82, 76, 34, 93>>,
            \* os.getenv("APP_SECRET")
            <<111, 115, 46, 103, 101, 116, 101, 110, 118, 40, 34, 65, 80, 80, 95,
              83, 69, 67, 82, 69, 84, 34, 41>> >>
    [] path = join(Root, BJs) ->
         << ProcessEnv \o <<46>> \o APP_SECRET,                  \* process.env.APP_SECRET
            ProcessEnv \o <<46>> \o API_KEY >>                   \* process.env.API_KEY
    [] path = join(Root, CTxt) ->
         << ProcessEnv \o <<46>> \o API_KEY >>                   \* process.env.API_KEY
    [] path \in {join(Root, ConfigName), join(Proj, ConfigName)} -> UserToml
    [] OTHER -> <<>>

FileStates == {"absent", "unreadable", "readable"}

\* Path::exists() && Path::is_file()
is_file(d, path) == path \in DOMAIN d /\ d[path] # "absent"

\* std::fs::read_to_string: the content, or an error for a file that is
\* absent, is not valid UTF-8 or may not be opened; a file in the state
\* "generated" is a readable file with the content that init has written
read_to_string(d, path) ==
  IF path \in DOMAIN d /\ d[path] = "readable"
    THEN [ok |-> TRUE, content |-> FileContent(path)]
  ELSE IF path \in DOMAIN d /\ d[path] = "generated"
    THEN [ok |-> TRUE, content |-> generate_default]
    ELSE [ok |-> FALSE, content |-> <<>>]

-----------------------------------------------------------------------------
(* scanner/file_walker.rs *)

\* Language::extensions of all_languages()
LanguageExtensions ==
  { <<106, 115>>, <<109, 106, 115>>, <<99, 106, 115>>, <<106, 115, 120>>,   \* js mjs cjs jsx
    <<116, 115>>, <<109, 116, 115>>, <<99, 116, 115>>, <<116, 115, 120>>,   \* ts mts cts tsx
    <<112, 121>>, <<114, 115>>, <<103, 111>>, <<114, 98>>,                  \* py rs go rb
    <<112, 104, 112>>, <<106, 97, 118, 97>>, <<99, 115>> }                  \* php java cs

\* FileWalker::is_supported_extension, without a language filter
is_supported_extension(ext) == to_lowercase(ext) \in LanguageExtensions

\* a file is met by the walk from a root
under(root, path) == starts_with(path, root \o <<47>>)

\* the files that find_source_files pushes, in any order
supported_files(root, d) ==
  {p \in DOMAIN d : /\ under(root, p)
                    /\ is_file(d, p)
                    /\ extension(p).some
                    /\ is_supported_extension(extension(p).ext)}

\* the configured environment files that exist, in the configured order
configured_env_files(root, d, env_file_names) ==
  LET paths == [i \in DOMAIN env_file_names |-> join(root, env_file_names[i])]
  IN SelectSeq(paths, LAMBDA p : is_file(d, p))

\* the other files that find_env_files pushes: those whose name starts with
\* .env, in any order
other_env_files(root, d, env_file_names) ==
  {p \in DOMAIN d :
     /\ under(root, p)
     /\ is_file(d, p)
     /\ starts_with(file_name(p), DotEnv)
     /\ \A i \in DOMAIN env_file_names : p # join(root, env_file_names[i])}

\* FileWalker::find_env_files; walk is the order of the walk over the others
find_env_files(root, d, env_file_names, walk) ==
  configured_env_files(root, d, env_file_names) \o walk

-----------------------------------------------------------------------------
(* scanner/code_scanner.rs: scan_files *)

\* scan_files that gives up at the first file that cannot be read
scan_files_until_failure(d, files) ==
  LET bad == {i \in DOMAIN files : ~read_to_string(d, files[i]).ok}
      upto == IF bad = {} THEN Len(files) ELSE MinOf(bad) - 1
  IN Flatten([i \in 1..upto |->
                scan_file(files[i], read_to_string(d, files[i]).content)])

\* CodeScanner::scan_files: the usages of the files whose scan_file is Ok, in
\* the order of the files
scan_files(d, files) ==
  Flatten([i \in DOMAIN files |->
             IF read_to_string(d, files[i]).ok
               THEN scan_file(files[i], read_to_string(d, files[i]).content)
               ELSE <<>>])

-----------------------------------------------------------------------------
(* types.rs: ScanReport;  main.rs: the commands *)

\* the number of issues of a severity
CountSeverity(iss, sev) == Cardinality({i \in DOMAIN iss : iss[i].severity = sev})

\* ScanReport::calculate_summary, after files_scanned and env_files_found
calculate_summary(defs, uses, iss, files_scanned, env_files_found) ==
  [files_scanned |-> files_scanned,
   env_files_found |-> env_files_found,
   total_issues |-> Len(iss),
   errors |-> CountSeverity(iss, "Error"),
   warnings |-> CountSeverity(iss, "Warning"),
   infos |-> CountSeverity(iss, "Info"),
   vars_defined |-> Len(defs),
   vars_used |-> Cardinality({uses[i].name : i \in DOMAIN uses})]

\* failing_issues counting the issues above the threshold only
failing_issues_above(iss, fail_severity) ==
  Cardinality({i \in DOMAIN iss :
                 SeverityOrd(iss[i].severity) > SeverityOrd(fail_severity)})

\* cmd_check: the number of issues at or above the fail severity
failing_issues(iss, fail_severity) ==
  Cardinality({i \in DOMAIN iss :
                 SeverityOrd(iss[i].severity) >= SeverityOrd(fail_severity)})

\* in_both as the names of the first file
in_both_first(defs1, defs2) == defined_names(defs1)

\* cmd_compare: names1.difference(&names2), names2.difference(&names1) and
\* names1.intersection(&names2)
only_in_1(defs1, defs2) == defined_names(defs1) \ defined_names(defs2)
only_in_2(defs1, defs2) == defined_names(defs2) \ defined_names(defs1)
in_both(defs1, defs2) == defined_names(defs1) \cap defined_names(defs2)

\* defs.iter().find(|d| d.name == name).value
first_value(defs, name) ==
  defs[MinOf({i \in DOMAIN defs : defs[i].name = name})].value

\* the error of parse_env_file for a file that cannot be read
ReadError(path) ==
  [failed |-> TRUE, text |-> "Failed to read env file", path |-> path]

Nothing == [kind |-> "nothing"]

-----------------------------------------------------------------------------
(* The commands scan, check and compare on a project *)

\* the command lines: scan with its check-selection flags, check with its
\* threshold, compare with its two files, all on the current directory and
\* with the default --config
ScanCommands ==
  {[command |-> "scan", path |-> Root, config |-> ConfigName,
    missing |-> m, unused |-> u, naming |-> n] :
     <<m, u, n>> \in {<<FALSE, FALSE, FALSE>>, <<TRUE, FALSE, FALSE>>,
                      <<FALSE, TRUE, FALSE>>, <<FALSE, FALSE, TRUE>>}}
CheckCommands ==
  [command : {"check"}, path : {Root}, config : {ConfigName},
   fail_on : Severity, summary : BOOLEAN]
CompareCommands ==
  [command : {"compare"}, path : {Root}, config : {ConfigName},
   file1 : {DotEnv, EnvLocal}, file2 : {DotEnv, EnvLocal}, show_values : BOOLEAN]

\* the projects: every file is absent, unreadable or readable; c.txt is
\* absent or readable
Disks ==
  {d \in [AllPaths -> FileStates] : d[join(Root, CTxt)] # "unreadable"}

\* the projects of a comparison: without source files
EnvDisks ==
  {d \in [AllPaths -> FileStates] : \A p \in SourcePaths : d[p] = "absent"}

InitRun ==
  /\ NoPar
  /\ pc = "run"
  /\ \/ cli \in ScanCommands \cup CheckCommands /\ disk \in Disks
     \/ cli \in CompareCommands /\ disk \in EnvDisks
  /\ config = DefaultConfig
  /\ envFiles = <<>>
  /\ sourceFiles = <<>>
  /\ report = NoReport
  /\ exit = -1
  /\ error = NoError
  /\ printed = Nothing
  /\ envContent = <<>>
  /\ definitions = <<>>
  /\ srcPath = <<>>
  /\ srcContent = <<>>
  /\ usages = <<>>
  /\ missing = <<>>
  /\ unused = <<>>
  /\ naming = <<>>
  /\ issues = <<>>

\* the error of Config::load for a file that cannot be read or parsed
ConfigError(text, path) == [failed |-> TRUE, text |-> text, path |-> path]

\* Config::load: the default configuration when no file is at the path,
\* else the configuration of the content of the file
Config_load(d, path) ==
  IF ~is_file(d, resolve(path))
    THEN [ok |-> TRUE, config |-> DefaultConfig, error |-> NoError]
  ELSE IF ~read_to_string(d, resolve(path)).ok
    THEN [ok |-> FALSE, config |-> DefaultConfig,
          error |-> ConfigError("Failed to read config file", path)]
  ELSE IF ~toml_from_str(read_to_string(d, resolve(path)).content).ok
    THEN [ok |-> FALSE, config |-> DefaultConfig,
          error |-> ConfigError("Failed to parse config file", path)]
    ELSE [ok |-> TRUE,
          config |-> toml_from_str(read_to_string(d, resolve(path)).content).config,
          error |-> NoError]

\* run_scan: Config::load(&cli.config)?
LoadConfig ==
  /\ pc = "run"
  /\ cli.command \in {"scan", "check"}
  /\ LET loaded == Config_load(disk, cli.config)
     IN IF loaded.ok
          THEN /\ config' = loaded.config
               /\ pc' = "config"
               /\ UNCHANGED <<error, exit>>
          ELSE /\ error' = loaded.error
               /\ exit' = 1
               /\ pc' = "done"
               /\ UNCHANGED config
  /\ UNCHANGED <<envContent, definitions, srcPath, srcContent, usages,
                 missing, unused, naming, issues, disk, envFiles, sourceFiles,
                 cli, report, printed, parVars>>

\* run_scan, the environment files: find_env_files, then parse_env_file(..)?
\* on every file; the first file that cannot be read ends run_scan, the
\* command and the process with its error
ParseEnvFiles ==
  /\ pc = "config"
  /\ cli.command \in {"scan", "check"}
  /\ \E walk \in Perms(other_env_files(cli.path, disk, default_env_files)) :
       envFiles' = find_env_files(cli.path, disk, default_env_files, walk)
  /\ LET bad == {i \in DOMAIN envFiles' : ~read_to_string(disk, envFiles'[i]).ok}
     IN IF bad # {}
          THEN /\ error' = ReadError(envFiles'[MinOf(bad)])
               /\ exit' = 1
               /\ pc' = "done"
               /\ UNCHANGED definitions
          ELSE /\ definitions' =
                    Flatten([i \in DOMAIN envFiles' |->
                               parse_env_file(envFiles'[i],
                                              read_to_string(disk, envFiles'[i]).content)])
               /\ pc' = "walk"
               /\ UNCHANGED <<error, exit>>
  /\ UNCHANGED <<envContent, srcPath, srcContent, usages, config, missing, unused,
                 naming, issues, disk, sourceFiles, cli, report, printed>>
  /\ UNCHANGED parVars

\* run_scan: walker.find_source_files(), in the order of the walk
FindSourceFiles ==
  /\ pc = "walk"
  /\ \E walk \in Perms(supported_files(cli.path, disk)) : sourceFiles' = walk
  /\ pc' = "files"
  /\ UNCHANGED <<envContent, definitions, srcPath, srcContent, usages, config,
                 missing, unused, naming, issues, disk, envFiles, cli, report,
                 exit, error, printed>>
  /\ UNCHANGED parVars

\* scanner.scan_files(&source_files)
ScanFiles ==
  /\ pc = "files"
  /\ usages' = scan_files(disk, sourceFiles)
  /\ pc' = "collect"
  /\ UNCHANGED <<envContent, definitions, srcPath, srcContent, config,
                 missing, unused, naming, issues, runVars>>

\* run_scan, after analyze: the report and its summary
BuildReport ==
  /\ pc = "analyzed"
  /\ cli.command \in {"scan", "check"}
  /\ report' = [built |-> TRUE,
                definitions |-> definitions,
                usages |-> usages,
                issues |-> issues,
                summary |-> calculate_summary(definitions, usages, issues,
                                              Len(sourceFiles), Len(envFiles))]
  /\ pc' = "report"
  /\ UNCHANGED <<envContent, definitions, srcPath, srcContent, usages, config,
                 missing, unused, naming, issues, disk, envFiles, sourceFiles,
                 cli, exit, error, printed>>
  /\ UNCHANGED parVars

\* cmd_scan, after run_scan: the report is formatted and printed; the
\* arguments of the command are not read
CmdScan ==
  /\ pc = "report"
  /\ cli.command = "scan"
  /\ printed' = [kind |-> "report", summary |-> report.summary,
                 issues |-> report.issues]
  /\ exit' = 0
  /\ pc' = "done"
  /\ UNCHANGED <<envContent, definitions, srcPath, srcContent, usages, config,
                 missing, unused, naming, issues, disk, envFiles, sourceFiles,
                 cli, report, error>>
  /\ UNCHANGED parVars

\* cmd_check, after run_scan: the summary line or the report is printed, and
\* the process exits with 1 when an issue is at or above --fail-on
CmdCheck ==
  /\ pc = "report"
  /\ cli.command = "check"
  /\ printed' = IF cli.summary
                  THEN [kind |-> "summary", errors |-> report.summary.errors,
                        warnings |-> report.summary.warnings,
                        infos |-> report.summary.infos]
                  ELSE [kind |-> "report", summary |-> report.summary,
                        issues |-> report.issues]
  /\ exit' = IF failing_issues(report.issues, cli.fail_on) > 0 THEN 1 ELSE 0
  /\ pc' = "done"
  /\ UNCHANGED <<envContent, definitions, srcPath, srcContent, usages, config,
                 missing, unused, naming, issues, disk, envFiles, sourceFiles,
                 cli, report, error>>
  /\ UNCHANGED parVars

\* cmd_compare: both files are parsed before anything is printed; the hash
\* sets of the names are printed in any order
CmdCompare ==
  /\ pc = "run"
  /\ cli.command = "compare"
  /\ LET file1_path == join(cli.path, cli.file1)
         file2_path == join(cli.path, cli.file2)
         read1 == read_to_string(disk, file1_path)
         read2 == read_to_string(disk, file2_path)
         defs1 == parse_env_file(file1_path, read1.content)
         defs2 == parse_env_file(file2_path, read2.content)
     IN IF ~read1.ok
          THEN error' = ReadError(file1_path) /\ exit' = 1 /\ UNCHANGED printed
        ELSE IF ~read2.ok
          THEN error' = ReadError(file2_path) /\ exit' = 1 /\ UNCHANGED printed
        ELSE
          /\ \E o1 \in Perms(only_in_1(defs1, defs2)),
                o2 \in Perms(only_in_2(defs1, defs2)),
                ob \in Perms(in_both(defs1, defs2)) :
               printed' =
                 [kind |-> "comparison",
                  only_in_1 |-> o1,
                  only_in_2 |-> o2,
                  in_both |-> ob,
                  differs |-> IF cli.show_values
                                THEN SelectSeq(ob, LAMBDA n :
                                       first_value(defs1, n) # first_value(defs2, n))
                                ELSE <<>>]
          /\ exit' = 0
          /\ UNCHANGED error
  /\ pc' = "done"
  /\ UNCHANGED <<envContent, definitions, srcPath, srcContent, usages, config,
                 missing, unused, naming, issues, disk, envFiles, sourceFiles,
                 cli, report>>
  /\ UNCHANGED parVars

NextRun ==
  \/ LoadConfig
  \/ ParseEnvFiles
  \/ FindSourceFiles
  \/ ScanFiles
  \/ Analyze
  \/ BuildReport
  \/ CmdScan
  \/ CmdCheck
  \/ CmdCompare

SpecRun == InitRun /\ [][NextRun]_vars

Done == pc = "done"

-----------------------------------------------------------------------------
(* scan_files on a list of files *)

\* the number of files handed to one scan_files
MaxFiles == 3

\* the lists of files: any paths of the project, in any order
FileLists == UNION {[1..k -> SourcePaths] : k \in 0..MaxFiles}

\* the states of the source files, without environment files
SourceDisks ==
  {d \in [AllPaths -> FileStates] : \A p \in EnvPaths : d[p] = "absent"}

InitScanFiles ==
  /\ NoPar
  /\ pc = "files"
  /\ disk \in SourceDisks
  /\ sourceFiles \in FileLists
  /\ cli = NoCli
  /\ config = NoConfig
  /\ envFiles = <<>>
  /\ report = NoReport
  /\ exit = -1
  /\ error = NoError
  /\ printed = Nothing
  /\ envContent = <<>>
  /\ definitions = <<>>
  /\ srcPath = <<>>
  /\ srcContent = <<>>
  /\ usages = <<>>
  /\ missing = <<>>
  /\ unused = <<>>
  /\ naming = <<>>
  /\ issues = <<>>

NextScanFiles == ScanFiles

SpecScanFiles == InitScanFiles /\ [][NextScanFiles]_vars

ScannedFiles == pc = "collect" /\ cli = NoCli

-----------------------------------------------------------------------------
(* Properties of scan_files *)

\* what a file of the list contributes: the usages of the extractor of its
\* extension on its content, nothing for a file that cannot be read or has no
\* registered scanner
Contribution(path) ==
  IF disk[path] = "readable" /\ get_scanner_for_file(path) # None
    THEN scan_file(path, FileContent(path))
    ELSE <<>>

\* C12: scan_files ends without an error for every list of files; the result
\* is, file by file, what the extractor of the file returns for its content,
\* and a file that cannot be read or has no registered scanner contributes no
\* usage.
C12_ScanFilesSkipsUnusableFiles ==
  ScannedFiles =>
    /\ ~error.failed
    /\ exit = -1
    /\ usages = Flatten([i \in DOMAIN sourceFiles |-> Contribution(sourceFiles[i])])
    /\ \A u \in DOMAIN usages :
         /\ disk[usages[u].file_path] = "readable"
         /\ get_scanner_for_file(usages[u].file_path) # None

\* a.py cannot be read and c.txt has no scanner: the result is the two usages
\* of b.js
C12_Witness ==
  /\ ScannedFiles
  /\ sourceFiles = <<join(Root, APy), join(Root, CTxt), join(Root, BJs)>>
  /\ disk[join(Root, APy)] = "unreadable"
  /\ disk[join(Root, CTxt)] = "readable"
  /\ disk[join(Root, BJs)] = "readable"
  /\ Len(usages) = 2
  /\ \A u \in DOMAIN usages : usages[u].file_path = join(Root, BJs)

-----------------------------------------------------------------------------
(* Properties of the commands *)

ScanDone == Done /\ cli.command \in {"scan", "check"}

\* C13: a scan ends with a report and without an error whatever files cannot
\* be read, and the report holds the definitions of every environment file
\* that can be read.
C13_ReadFailuresAbsorbed ==
  ScanDone =>
    /\ report.built
    /\ ~error.failed
    /\ \A p \in EnvPaths :
         disk[p] = "readable" =>
           \E d \in DOMAIN report.definitions : report.definitions[d].source_file = p

\* the names that parse_env_file finds in a file of the project
NamesIn(path) ==
  {parse_env_file(path, FileContent(path))[i].name :
     i \in DOMAIN parse_env_file(path, FileContent(path))}

\* the elements of a sequence
Range(s) == {s[i] : i \in DOMAIN s}

\* C14: compare ends with status 1, an error that names the path of a file
\* that cannot be read and no output when one of its two files is absent or
\* unreadable; otherwise it ends with status 0 and the names it computes as
\* only in file 1, only in file 2 and in both are N1 \ N2, N2 \ N1 and
\* N1 \cap N2 for the names N1 and N2 of the two files, each name once.
C14_CompareFailsOrPartitions ==
  (Done /\ cli.command = "compare") =>
    LET p1 == join(Root, cli.file1)
        p2 == join(Root, cli.file2)
    IN IF disk[p1] # "readable" \/ disk[p2] # "readable"
         THEN /\ exit = 1
              /\ error.failed
              /\ error.path \in {p \in {p1, p2} : disk[p] # "readable"}
              /\ printed = Nothing
         ELSE /\ exit = 0
              /\ ~error.failed
              /\ printed.kind = "comparison"
              /\ Range(printed.only_in_1) = NamesIn(p1) \ NamesIn(p2)
              /\ Range(printed.only_in_2) = NamesIn(p2) \ NamesIn(p1)
              /\ Range(printed.in_both) = NamesIn(p1) \cap NamesIn(p2)
              /\ Len(printed.only_in_1) = Cardinality(Range(printed.only_in_1))
              /\ Len(printed.only_in_2) = Cardinality(Range(printed.only_in_2))
              /\ Len(printed.in_both) = Cardinality(Range(printed.in_both))
              /\ Range(printed.only_in_1) \cup Range(printed.only_in_2)
                   \cup Range(printed.in_both) = NamesIn(p1) \cup NamesIn(p2)

\* .env against .env.local: DB_URL only in the first, APP_SECRET only in the
\* second, API_KEY in both
C14_Witness ==
  /\ Done
  /\ cli.command = "compare"
  /\ cli.file1 = DotEnv
  /\ cli.file2 = EnvLocal
  /\ exit = 0
  /\ printed.kind = "comparison"
  /\ printed.only_in_1 = <<DB_URL>>
  /\ printed.only_in_2 = <<APP_SECRET>>
  /\ printed.in_both = <<API_KEY>>

\* CheckArgs::fail_on, default_value_t
default_fail_on == "Error"

\* C15: check, once its scan has returned a report, exits with status 1 if
\* and only if the report has an issue whose severity is at or above the
\* --fail-on threshold in the order Info < Warning < Error, and with status 0
\* otherwise.
C15_CheckFailsIffIssueAtThreshold ==
  (Done /\ cli.command = "check" /\ report.built) =>
    /\ exit \in {0, 1}
    /\ exit = 1 <=>
         \E i \in DOMAIN report.issues :
           \/ report.issues[i].severity = cli.fail_on
           \/ cli.fail_on = "Info"
           \/ (cli.fail_on = "Warning" /\ report.issues[i].severity = "Error")

\* the default threshold and a report with warnings and infos but no error:
\* the check succeeds
C15_Witness ==
  /\ Done
  /\ cli.command = "check"
  /\ cli.fail_on = default_fail_on
  /\ report.built
  /\ report.summary.warnings >= 2
  /\ report.summary.infos >= 1
  /\ report.summary.errors = 0
  /\ exit = 0

\* C16: the issues that scan reports are only MissingEnvVar issues under
\* --missing, only UnusedEnvVar issues under --unused and only
\* InconsistentNaming issues under --naming.
C16_ScanHonoursSelection ==
  (Done /\ cli.command = "scan" /\ printed.kind = "report") =>
    \A i \in DOMAIN printed.issues :
      /\ cli.missing => printed.issues[i].kind = "MissingEnvVar"
      /\ cli.unused => printed.issues[i].kind = "UnusedEnvVar"
      /\ cli.naming => printed.issues[i].kind = "InconsistentNaming"

\* C17: the summary of a report counts its issues by severity, the counts sum
\* to total_issues, the number of issues, and vars_defined and vars_used are
\* the numbers of distinct names of its definitions and of its usages.
C17_SummaryDerived ==
  report.built =>
    /\ report.summary.total_issues = Len(report.issues)
    /\ report.summary.errors + report.summary.warnings + report.summary.infos
         = report.summary.total_issues
    /\ \A sev \in Severity :
         (CASE sev = "Error" -> report.summary.errors
            [] sev = "Warning" -> report.summary.warnings
            [] sev = "Info" -> report.summary.infos)
           = Cardinality({i \in DOMAIN report.issues : report.issues[i].severity = sev})
    /\ report.summary.vars_defined
         = Cardinality({report.definitions[i].name : i \in DOMAIN report.definitions})
    /\ report.summary.vars_used
         = Cardinality({report.usages[i].name : i \in DOMAIN report.usages})

-----------------------------------------------------------------------------
(* Properties of the locations of the issues *)

\* the order of C18 on two locations with a column: by file, line, column
BeforeOrAt(a, b) ==
  \/ PathCmp(a.file, b.file) < 0
  \/ /\ PathCmp(a.file, b.file) = 0
     /\ \/ a.line < b.line
        \/ (a.line = b.line /\ a.column <= b.column)

\* the usages of a name, as locations, in the order of the usages
UsageLocations(n) ==
  LET us == SelectSeq(usages, LAMBDA u : u.name = n)
  IN [i \in DOMAIN us |->
        [file |-> us[i].file_path, line |-> us[i].line, column |-> us[i].column]]

\* two sequences hold the same elements the same number of times
SameBag(s, t) ==
  /\ Len(s) = Len(t)
  /\ \A x \in Range(s) \cup Range(t) :
       Cardinality({i \in DOMAIN s : s[i] = x}) = Cardinality({i \in DOMAIN t : t[i] = x})

\* C18: the locations of a Missing issue are the locations of the usages of
\* its name, one per usage, in ascending order of (file, line, column).
C18_MissingLocationsSorted ==
  \A i \in DOMAIN issues :
    issues[i].kind = "MissingEnvVar" =>
      /\ SameBag(issues[i].locations, UsageLocations(issues[i].var_name))
      /\ \A k \in 1..(Len(issues[i].locations) - 1) :
           BeforeOrAt(issues[i].locations[k], issues[i].locations[k + 1])

\* the (file, line) pairs at which a name is defined or used
Occurrences(n) ==
  {<<definitions[d].source_file, definitions[d].line>> :
     d \in {e \in DOMAIN definitions : definitions[e].name = n}}
  \cup {<<usages[u].file_path, usages[u].line>> :
     u \in {v \in DOMAIN usages : usages[v].name = n}}

\* C19: the locations of an InconsistentNaming issue for a name are the
\* (file, line) pairs at which the name is defined or used, each of them once,
\* in strictly ascending order of (file, line).
C19_NamingLocationsMergedAndSorted ==
  \A i \in DOMAIN issues :
    issues[i].kind = "InconsistentNaming" =>
      LET locs == issues[i].locations
      IN /\ {<<locs[k].file, locs[k].line>> : k \in DOMAIN locs}
              = Occurrences(issues[i].var_name)
         /\ \A k \in 1..(Len(locs) - 1) :
              \/ PathCmp(locs[k].file, locs[k + 1].file) < 0
              \/ /\ PathCmp(locs[k].file, locs[k + 1].file) = 0
                 /\ locs[k].line < locs[k + 1].line

\* b.js is scanned before a.py: the issue for APP_SECRET lists .env.local,
\* a.py, b.js, and the issue for DB_URL, defined on two lines and used twice
\* on one line, has three locations
C19_Witness ==
  /\ pc = "analyzed"
  /\ sourceFiles = <<join(Root, BJs), join(Root, APy)>>
  /\ \E i \in DOMAIN issues :
       /\ issues[i].kind = "InconsistentNaming"
       /\ issues[i].var_name = APP_SECRET
       /\ [k \in DOMAIN issues[i].locations |-> issues[i].locations[k].file]
            = <<join(Root, EnvLocal), join(Root, APy), join(Root, BJs)>>
  /\ \E i \in DOMAIN issues :
       /\ issues[i].kind = "InconsistentNaming"
       /\ issues[i].var_name = DB_URL
       /\ Len(issues[i].locations) = 3
       /\ Len(UsageLocations(DB_URL)) = 2
       /\ Cardinality({d \in DOMAIN definitions : definitions[d].name = DB_URL}) = 2

-----------------------------------------------------------------------------
(* Properties of the registry of scanners *)

\* the scanners of the registry that list an extension
Claimers(ext) ==
  {s \in DOMAIN ScannerExtensions : ext \in Range(ScannerExtensions[s].extensions)}

\* C22: get_scanner_for_file returns the first registered scanner that lists
\* the extension of the file compared without regard to case, and none for a
\* path without extension or with an extension no scanner lists; the result
\* depends on the path only; and every extension of the registry is listed by
\* exactly one scanner, so the registration order decides no lookup.
C22_LookupByExtensionIgnoringCase ==
  /\ \A s, t \in DOMAIN ScannerExtensions :
       Range(ScannerExtensions[s].extensions)
         \cap Range(ScannerExtensions[t].extensions) # {} => s = t
  /\ Scanned =>
       LET found == get_scanner_for_file(srcPath)
           ext == to_lowercase(extension(srcPath).ext)
       IN /\ ~extension(srcPath).some => found = None
          /\ extension(srcPath).some /\ Claimers(ext) = {} => found = None
          /\ extension(srcPath).some /\ Claimers(ext) # {} =>
               /\ found = ScannerExtensions[MinOf(Claimers(ext))].scanner
               /\ Claimers(ext) = {MinOf(Claimers(ext))}
          /\ found = None => usages = <<>>

\* A.JS, whose extension is listed in lowercase only, is scanned by the
\* JavaScript scanner and has usages
C22_Witness ==
  /\ Scanned
  /\ srcPath = <<65, 46, 74, 83>>
  /\ get_scanner_for_file(srcPath) = "JavaScript"
  /\ usages # <<>>

\* Language::extensions
language_extensions(language) ==
  CASE language = "JavaScript" ->
         {<<106, 115>>, <<109, 106, 115>>, <<99, 106, 115>>, <<106, 115, 120>>}
    [] language = "TypeScript" ->
         {<<116, 115>>, <<109, 116, 115>>, <<99, 116, 115>>, <<116, 115, 120>>}
    [] language = "Python" -> {<<112, 121>>}
    [] language = "Rust" -> {<<114, 115>>}
    [] language = "Go" -> {<<103, 111>>}
    [] language = "Ruby" -> {<<114, 98>>}
    [] language = "Php" -> {<<112, 104, 112>>}
    [] language = "Java" -> {<<106, 97, 118, 97>>}
    [] language = "CSharp" -> {<<99, 115>>}
    [] OTHER -> {}

\* C28: the language of every usage of a scanned file lists the lowercased
\* extension of the file among its extensions.
C28_LanguageAgreesWithExtension ==
  Scanned =>
    \A u \in DOMAIN usages :
      /\ extension(usages[u].file_path).some
      /\ to_lowercase(extension(usages[u].file_path).ext)
           \in language_extensions(usages[u].language)

-----------------------------------------------------------------------------
(* Properties of the rules *)

\* C23: no rule of get_all_rules lists its preferred name among its
\* alternatives, and no InconsistentNaming issue suggests the name it is
\* about.
C23_PreferredNotAmongAlternatives ==
  /\ \A r \in DOMAIN get_all_rules(config) :
       get_all_rules(config)[r].preferred
         \notin Range(get_all_rules(config)[r].alternatives)
  /\ Analyzed =>
       \A i \in DOMAIN issues :
         issues[i].kind = "InconsistentNaming" =>
           issues[i].suggestion.name # issues[i].var_name

-----------------------------------------------------------------------------
(* Properties of the kinds of the issues *)

\* the definitions without the later definitions of a name already defined
DefinedOnce(defs) ==
  LET keep == {i \in DOMAIN defs : \A j \in 1..(i - 1) : defs[j].name # defs[i].name}
      nth(k) == CHOOSE i \in keep : Cardinality({j \in keep : j <= i}) = k
  IN [k \in 1..Cardinality(keep) |-> defs[nth(k)]]

\* the kind, severity and name of every issue, in the order of the issues
IssueHeads(iss) ==
  [i \in DOMAIN iss |-> <<iss[i].kind, iss[i].severity, iss[i].var_name>>]

\* C24: every issue of a report is a MissingEnvVar, UnusedEnvVar or
\* InconsistentNaming issue, and the issues are, in kind, severity, name and
\* order, the issues of the same facts with every name defined once.
C24_NoIssueForDuplicateDefinitions ==
  report.built =>
    /\ \A i \in DOMAIN report.issues :
         report.issues[i].kind \in {"MissingEnvVar", "UnusedEnvVar", "InconsistentNaming"}
    /\ IssueHeads(report.issues)
         = IssueHeads(analyze(DefinedOnce(report.definitions), report.usages, config,
                              RefOrder(missing_names(report.definitions, report.usages)),
                              RefOrder(unused_names(report.definitions, report.usages))))

\* a report on a name defined twice in one file with two values, a name
\* defined in two files, and an issue for each of them
C24_Witness ==
  /\ report.built
  /\ \E i, j \in DOMAIN report.definitions :
       /\ i # j
       /\ report.definitions[i].name = report.definitions[j].name
       /\ report.definitions[i].source_file = report.definitions[j].source_file
       /\ report.definitions[i].value # report.definitions[j].value
       /\ \E k \in DOMAIN report.issues :
            report.issues[k].var_name = report.definitions[i].name
  /\ \E i, j \in DOMAIN report.definitions :
       /\ report.definitions[i].name = report.definitions[j].name
       /\ report.definitions[i].source_file # report.definitions[j].source_file
       /\ \E k \in DOMAIN report.issues :
            /\ report.issues[k].var_name = report.definitions[i].name
            /\ report.issues[k].kind = "UnusedEnvVar"

-----------------------------------------------------------------------------
(* Properties of the locations of every issue *)

\* a location is the place of a definition of the name
IsDefinitionLocation(l, n) ==
  \E d \in DOMAIN definitions :
    /\ definitions[d].name = n
    /\ l.file = definitions[d].source_file
    /\ l.line = definitions[d].line

\* a location is the place of a usage of the name
IsUsageLocation(l, n) ==
  \E u \in DOMAIN usages :
    /\ usages[u].name = n
    /\ l.file = usages[u].file_path
    /\ l.line = usages[u].line

\* C27: every issue of analyze has at least one location; the first location
\* of a Missing issue is a usage of its name, that of an Unused issue a
\* definition of its name, and that of an InconsistentNaming issue a
\* definition or a usage of its name.
C27_EveryIssueHasALocation ==
  Analyzed =>
    \A i \in DOMAIN issues :
      /\ Len(issues[i].locations) >= 1
      /\ issues[i].kind = "MissingEnvVar" =>
           IsUsageLocation(issues[i].locations[1], issues[i].var_name)
      /\ issues[i].kind = "UnusedEnvVar" =>
           IsDefinitionLocation(issues[i].locations[1], issues[i].var_name)
      /\ issues[i].kind = "InconsistentNaming" =>
           \/ IsDefinitionLocation(issues[i].locations[1], issues[i].var_name)
           \/ IsUsageLocation(issues[i].locations[1], issues[i].var_name)

\* an analysis with an issue of every kind, under a rule with an alternative
\* that is neither defined nor used
C27_Witness ==
  /\ Analyzed
  /\ {issues[i].kind : i \in DOMAIN issues}
       = {"MissingEnvVar", "UnusedEnvVar", "InconsistentNaming"}
  /\ \E r \in DOMAIN get_all_rules(config) :
       \E a \in DOMAIN get_all_rules(config)[r].alternatives :
         LET alt == get_all_rules(config)[r].alternatives[a]
         IN ~IsDefined(alt) /\ ~IsUsed(alt)

-----------------------------------------------------------------------------
(* Properties of the definitions of a file *)

\* a line that parse_env_file accepts
IsAccepted(line) ==
  /\ IsContentLine(line)
  /\ HasEq(AfterExport(trim(line)))
  /\ IsIdentifier(trim(BeforeEq(AfterExport(trim(line)))))

\* C25: the definitions of a file are in the order of its lines, one for
\* every accepted line and no other, each with the 1-based number of its line
\* among all lines of the file and the name of that line; two lines with the
\* same name give two definitions.
C25_DefinitionsInFileOrderWithLineNumbers ==
  Parsed =>
    LET accepted == {i \in DOMAIN envContent : IsAccepted(envContent[i])}
    IN /\ Len(definitions) = Cardinality(accepted)
       /\ \A d \in DOMAIN definitions :
            /\ definitions[d].line \in accepted
            /\ Cardinality({i \in accepted : i <= definitions[d].line}) = d
            /\ definitions[d].name
                 = trim(BeforeEq(AfterExport(trim(envContent[definitions[d].line]))))
            /\ definitions[d].source_file = DotEnv

\* the file of `EMPTY_VAR=`, `# comment` and `EMPTY_VAR=`: two definitions of
\* EMPTY_VAR, of the lines 1 and 3
C25_Witness ==
  /\ Parsed
  /\ envContent = << <<69, 77, 80, 84, 89, 95, 86, 65, 82, 61>>,
                     <<35, 32, 99, 111, 109, 109, 101, 110, 116>>,
                     <<69, 77, 80, 84, 89, 95, 86, 65, 82, 61>> >>
  /\ Len(definitions) = 2
  /\ definitions[1].name = definitions[2].name
  /\ definitions[1].line = 1
  /\ definitions[2].line = 3

-----------------------------------------------------------------------------
(* scan_files on the threads of its pool.  par_iter hands the files to the  *)
(* threads of the pool; every thread runs scan_file on one file at a time,  *)
(* and collect puts the results together in the order of the files.         *)

\* the number of threads of the pool
MaxWorkers == 2

Todo == [state |-> "todo", worker |-> 0, usages |-> <<>>]

\* filter_map(|path| scan_file(path) ..): the result of one file, nothing for
\* a file that cannot be read
filter_map(d, path) ==
  IF read_to_string(d, path).ok
    THEN scan_file(path, read_to_string(d, path).content)
    ELSE <<>>

\* collect that keeps what the first thread of the pool has produced
collect_first_worker(results) ==
  Flatten([i \in DOMAIN results |->
             IF results[i].worker = 1 THEN results[i].usages ELSE <<>>])

\* flatten().collect(): the results in the order of the files
collect(results) == Flatten([i \in DOMAIN results |-> results[i].usages])

\* the projects of a parallel scan: every source file is there, a.py and b.js
\* readable or not, and .env is the one environment file
ParDisks ==
  {d \in [AllPaths -> FileStates] :
     /\ \A p \in SourcePaths : d[p] # "absent"
     /\ d[join(Root, CTxt)] = "readable"
     /\ d[join(Root, DotEnv)] = "readable"
     /\ d[join(Root, EnvLocal)] = "absent"}

\* run_scan at the call of scan_files, on the files in the order of any walk
InitParScan ==
  /\ pc = "par"
  /\ disk \in ParDisks
  /\ cli = [command |-> "scan", path |-> Root, config |-> ConfigName,
            missing |-> FALSE, unused |-> FALSE, naming |-> FALSE]
  /\ config = DefaultConfig
  /\ envFiles = find_env_files(Root, disk, default_env_files, <<>>)
  /\ definitions =
       Flatten([i \in DOMAIN envFiles |->
                  parse_env_file(envFiles[i], read_to_string(disk, envFiles[i]).content)])
  /\ sourceFiles \in Perms(SourcePaths)
  /\ nworkers \in 1..MaxWorkers
  /\ slots = [i \in DOMAIN sourceFiles |-> Todo]
  /\ finished = <<>>
  /\ report = NoReport
  /\ exit = -1
  /\ error = NoError
  /\ printed = Nothing
  /\ envContent = <<>>
  /\ srcPath = <<>>
  /\ srcContent = <<>>
  /\ usages = <<>>
  /\ missing = <<>>
  /\ unused = <<>>
  /\ naming = <<>>
  /\ issues = <<>>

\* a thread of the pool that has no file takes one that no thread has taken
StartExtraction ==
  /\ pc = "par"
  /\ \E w \in 1..nworkers, i \in DOMAIN slots :
       /\ \A j \in DOMAIN slots : ~(slots[j].state = "running" /\ slots[j].worker = w)
       /\ slots[i].state = "todo"
       /\ slots' = [slots EXCEPT ![i] = [state |-> "running", worker |-> w,
                                          usages |-> <<>>]]
  /\ UNCHANGED <<envContent, definitions, srcPath, srcContent, usages, config,
                 missing, unused, naming, issues, pc, disk, envFiles, sourceFiles,
                 cli, report, exit, error, printed, nworkers, finished>>

\* the scan_file of a thread returns
FinishExtraction ==
  /\ pc = "par"
  /\ \E i \in DOMAIN slots :
       /\ slots[i].state = "running"
       /\ slots' = [slots EXCEPT ![i] = [state |-> "done", worker |-> slots[i].worker,
                                          usages |-> filter_map(disk, sourceFiles[i])]]
       /\ finished' = Append(finished, i)
  /\ UNCHANGED <<envContent, definitions, srcPath, srcContent, usages, config,
                 missing, unused, naming, issues, pc, disk, envFiles, sourceFiles,
                 cli, report, exit, error, printed, nworkers>>

\* every file is done: scan_files returns the collected usages
Collect ==
  /\ pc = "par"
  /\ \A i \in DOMAIN slots : slots[i].state = "done"
  /\ usages' = collect(slots)
  /\ pc' = "collect"
  /\ UNCHANGED <<envContent, definitions, srcPath, srcContent, config,
                 missing, unused, naming, issues, runVars>>

NextParScan ==
  \/ StartExtraction
  \/ FinishExtraction
  \/ Collect
  \/ Analyze

SpecParScan == InitParScan /\ [][NextParScan]_vars

\* C21: whatever the number of threads and the order in which the files are
\* finished, scan_files returns every usage of every readable file with a
\* scanner once, no usage lost and none twice, and the issues computed from
\* the result have the kinds, severities, names and order of the issues
\* computed from the files taken in a fixed order.
C21_ParallelScanLosesNothing ==
  LET ref == RefOrder(SourcePaths)
      expected == Flatten([i \in DOMAIN ref |-> Contribution(ref[i])])
  IN /\ pc \in {"collect", "analyzed"} => SameBag(usages, expected)
     /\ pc = "analyzed" =>
          IssueHeads(issues)
            = IssueHeads(analyze(definitions, expected, config,
                                 RefOrder(missing_names(definitions, expected)),
                                 RefOrder(unused_names(definitions, expected))))

\* two threads, the files finished in another order than they are listed,
\* each thread with usages of its own, and issues computed from the result
C21_Witness ==
  /\ pc = "analyzed"
  /\ nworkers = 2
  /\ finished = <<3, 1, 2>>
  /\ \E i, j \in DOMAIN slots :
       /\ slots[i].worker = 1 /\ slots[i].usages # <<>>
       /\ slots[j].worker = 2 /\ slots[j].usages # <<>>
  /\ issues # <<>>

-----------------------------------------------------------------------------
(* main.rs: init, and commands that follow one another on one file system   *)

ExistsError(path) ==
  [failed |-> TRUE, text |-> "Config file already exists", path |-> path]
WriteError(path) ==
  [failed |-> TRUE, text |-> "Failed to write config file", path |-> path]

\* cmd_init that writes the file whether it exists or not
cmd_init_overwrite(d, path, writable) ==
  LET config_path == join(path, ConfigName)
  IN IF ~writable
       THEN [ok |-> FALSE, disk |-> d, error |-> WriteError(config_path)]
       ELSE [ok |-> TRUE, disk |-> [d EXCEPT ![config_path] = "generated"],
             error |-> NoError]

\* cmd_init: an error when the file exists, else std::fs::write of the
\* default content, which creates the file or fails
cmd_init(d, path, writable) ==
  LET config_path == join(path, ConfigName)
  IN IF is_file(d, config_path)
       THEN [ok |-> FALSE, disk |-> d, error |-> ExistsError(config_path)]
     ELSE IF ~writable
       THEN [ok |-> FALSE, disk |-> d, error |-> WriteError(config_path)]
       ELSE [ok |-> TRUE, disk |-> [d EXCEPT ![config_path] = "generated"],
             error |-> NoError]

\* the configuration files of the two projects
ConfigPaths == {join(Root, ConfigName), join(Proj, ConfigName)}

\* the files: .env and a.py of the current directory and the configuration
\* files; a configuration file is absent or has the content of UserToml
SessionPaths == {join(Root, DotEnv), join(Root, APy)} \cup ConfigPaths
SessionDisks ==
  {d \in [SessionPaths -> {"absent", "readable"}] : d[join(Root, APy)] = "readable"}

\* init and scan, on the current directory or on /p, with the default --config
InitCommands == [command : {"init"}, path : {Root, Proj}, config : {ConfigName}]
SessionScanCommands ==
  [command : {"scan"}, path : {Root, Proj}, config : {ConfigName},
   missing : {FALSE}, unused : {FALSE}, naming : {FALSE}]

InitSession ==
  /\ NoPar
  /\ pc = "run"
  /\ cli \in InitCommands \cup SessionScanCommands
  /\ disk \in SessionDisks
  /\ config = DefaultConfig
  /\ envFiles = <<>>
  /\ sourceFiles = <<>>
  /\ report = NoReport
  /\ exit = -1
  /\ error = NoError
  /\ printed = Nothing
  /\ envContent = <<>>
  /\ definitions = <<>>
  /\ srcPath = <<>>
  /\ srcContent = <<>>
  /\ usages = <<>>
  /\ missing = <<>>
  /\ unused = <<>>
  /\ naming = <<>>
  /\ issues = <<>>

\* cmd_init
CmdInit ==
  /\ pc = "run"
  /\ cli.command = "init"
  /\ \E writable \in BOOLEAN :
       LET done == cmd_init(disk, cli.path, writable)
       IN /\ disk' = done.disk
          /\ error' = done.error
          /\ exit' = IF done.ok THEN 0 ELSE 1
          /\ printed' = IF done.ok
                          THEN [kind |-> "created", path |-> join(cli.path, ConfigName)]
                          ELSE printed
  /\ pc' = "done"
  /\ UNCHANGED <<envContent, definitions, srcPath, srcContent, usages, config,
                 missing, unused, naming, issues, envFiles, sourceFiles, cli,
                 report, parVars>>

\* the process has ended and the next command is run, on the files as they are
NextCommand ==
  /\ pc = "done"
  /\ cli' \in InitCommands \cup SessionScanCommands
  /\ pc' = "run"
  /\ config' = DefaultConfig
  /\ envFiles' = <<>>
  /\ sourceFiles' = <<>>
  /\ report' = NoReport
  /\ exit' = -1
  /\ error' = NoError
  /\ printed' = Nothing
  /\ definitions' = <<>>
  /\ usages' = <<>>
  /\ missing' = <<>>
  /\ unused' = <<>>
  /\ naming' = <<>>
  /\ issues' = <<>>
  /\ UNCHANGED <<envContent, srcPath, srcContent, disk, parVars>>

NextSession ==
  \/ CmdInit
  \/ LoadConfig
  \/ ParseEnvFiles
  \/ FindSourceFiles
  \/ ScanFiles
  \/ Analyze
  \/ BuildReport
  \/ CmdScan
  \/ NextCommand

SpecSession == InitSession /\ [][NextSession]_vars

-----------------------------------------------------------------------------
(* Properties of init and of the commands after it *)

\* C26: no step changes a configuration file that exists, a file that does
\* not exist is left absent or gets the default content, and init on a
\* project whose configuration file exists ends with an error.
C26_InitNeverOverwrites ==
  [][\A p \in ConfigPaths :
       /\ disk[p] # "absent" => disk'[p] = disk[p]
       /\ disk'[p] \in {disk[p], "generated"}
       /\ (pc = "run" /\ cli.command = "init" /\ p = join(cli.path, ConfigName)
             /\ disk[p] # "absent")
            => (pc' = "done" /\ error'.failed /\ exit' = 1)]_vars

\* a second init on the file that a first init has written has failed
C26_Witness ==
  /\ pc = "done"
  /\ cli.command = "init"
  /\ error.failed
  /\ error.text = "Config file already exists"
  /\ disk[join(cli.path, ConfigName)] = "generated"

\* the environment files of a scan are found and parsed
EnvFilesParsed == cli.command = "scan" /\ pc \notin {"run", "config"}

\* C29: in a scan of a project whose configuration file init has written,
\* every file of find_env_files has a configured name or is named .env or
\* .env.<suffix>, no definition comes from the configuration file, and every
\* Unused issue is about a name defined in another file.
C29_ConfigFileIsNoEnvFile ==
  (EnvFilesParsed /\ disk[join(cli.path, ConfigName)] = "generated") =>
    /\ \A i \in DOMAIN envFiles :
         \/ file_name(envFiles[i]) \in Range(default_env_files)
         \/ file_name(envFiles[i]) = DotEnv
         \/ starts_with(file_name(envFiles[i]), DotEnv \o <<46>>)
    /\ \A d \in DOMAIN definitions :
         file_name(definitions[d].source_file) # ConfigName
    /\ \A i \in DOMAIN issues :
         issues[i].kind = "UnusedEnvVar" =>
           \E d \in DOMAIN definitions :
             /\ definitions[d].name = issues[i].var_name
             /\ file_name(definitions[d].source_file) # ConfigName

\* C30: a scan with the default --config of a project whose configuration
\* file init has written uses the configuration of that file.
C30_ScanUsesConfigOfInit ==
  (cli.command = "scan" /\ pc # "run"
     /\ disk[join(cli.path, ConfigName)] = "generated") =>
    config = GeneratedConfig

=============================================================================
